---------------------------- MODULE Spec2Model ----------------------------
(***************************************************************************)
(* Verification model of the gaming-server daemon:                         *)
(*   - server_state_machine.c : the orchestrator FSM (server_context_t)    *)
(*   - cec_monitor.c          : the power monitor and its polling thread   *)
(*   - ps5_wake.c             : the wake controller                        *)
(*   - main.c                 : the wiring of the callbacks, the main loop *)
(*                                                                         *)
(*   - ps5_detector.c         : the presence detector and its cache file   *)
(*                                                                         *)
(* The specifications share the variables:                                 *)
(*   Spec         the orchestrator API driven by one thread                *)
(*   SpecMonitor  the power monitor API and its polling thread             *)
(*   SpecDaemon   main loop thread and polling thread of the daemon        *)
(*   SpecWake     the wake controller, one step per platform attempt       *)
(*   SpecDetector the presence detector API over the cache file            *)
(*   SpecValidate the two string validators of the detector                *)
(*   SpecEvents   Spec without explicit server_sm_transition calls         *)
(*   SpecEventsTicks   SpecEvents with update() called again and again     *)
(*   SpecDaemonTicks   the daemon's main loop running for ever             *)
(*   SpecCacheRace     a save and a load of the cache file, interleaved    *)
(*   SpecSetCallback   set_callback racing with the polling thread         *)
(***************************************************************************)
EXTENDS Integers, Sequences, FiniteSets, TLC

(***************************************************************************)
(* Bounds of the model (not program constants).                            *)
(***************************************************************************)
MaxClients == 1
MaxErrors == 6
MaxConsecutiveErrors == 6
MaxPolls == 2
MaxEvents == 3
MaxTime == 3
MaxGroups == 5
MaxEdits == 2
MaxLate == 1

(***************************************************************************)
(* Program constants.                                                      *)
(***************************************************************************)
CEC_MAX_CONSECUTIVE_ERRORS == 5
WAKE_MAX_RETRIES == 3
PS5_DETECT_OK == 0
PS5_DETECT_ERROR_NOT_INIT == -1
PS5_DETECT_ERROR_NOT_FOUND == -2
PS5_DETECT_ERROR_INVALID_PARAM == -3
PS5_DETECT_ERROR_CACHE_INVALID == -4
PS5_IP_MAX_LEN == 16
PS5_MAC_MAX_LEN == 18
PS5_CACHE_MAX_AGE == 3600

ServerStates ==
    {"INIT", "MONITORING", "PS5_DETECTED", "CLIENT_CONNECTED", "WAKING_PS5", "ERROR"}

PowerStates == {"UNKNOWN", "OFF", "STANDBY", "ON"}

NetworkStatuses == {"NET_UNKNOWN", "NET_OFFLINE", "NET_ONLINE"}

VARIABLES
    \* server_context_t (server_state_machine.h)
    current_state, last_state, ps5_power, ps5_network, client_count,
    wake_requested, wake_completed, error_count, on_state_enter,
    \* platform: the indicator signal last passed to platform_set_led_state
    led,
    \* ps5_wake_context_t (ps5_wake.c) and the clock read by time(NULL)
    wake_initialized, retry_count, last_wake_time, wake_callback, now,
    \* ps5_wake_send in progress: position, local `retry`, last_wake_time
    \* at entry, results of the platform attempts, pauses made, arguments
    \* of the completion callback
    wk_pc, wk_retry, wk_t0, wk_results, wake_pauses, wake_cb_log,
    \* cec_monitor_context_t (cec_monitor.c)
    initialized, monitoring, cec_current_state, cec_last_state,
    consecutive_errors, state_callback,
    \* polling thread: position, local variable `state`, mutex owner
    mt_pc, mt_state, mutex,
    \* main thread: position, first read of ps5_power in server_sm_update;
    \* the context pointer and the run flag of main.c
    main_pc, upd_p1, g_server_ctx, g_running,
    \* calls made by the last operation: platform_set_led_state calls,
    \* arguments of the state-enter callback and the context it finds,
    \* platform wake attempts,
    \* arguments of the monitor's change callback
    led_calls, enter_log, enter_view, wake_attempts, power_cb_log,
    \* observers: last operation, run of error events, scenario counters,
    \* published state and callback when the current poll was made, polls
    \* made and transport events delivered so far, failed polls in a row,
    \* the last call that returned to the main thread with its result
    op, errRun, c6, c6a, poll_prev, poll_cb, polls, events, fail_run, ret,
    \* ps5_detector_context_t (ps5_detector.c): initialized; the content of
    \* the file at cache_path; the caller's ps5_info_t; the record of the
    \* last save that succeeded while the file is as that save left it;
    \* the probes made by the last detector operation
    det_initialized, cache_file, det_info, det_saved, det_log,
    \* argument and result of the last validator call
    val_in, val_out,
    \* the cache file seen by two processes: its bytes in the file system;
    \* a ps5_detector_save_cache in progress (position, *info, json_str);
    \* a ps5_detector_get_cached in progress (position, file_size,
    \* json_str); the record the file held before the save
    disk, saver, loader, stored,
    \* cec_monitor_context_t: callback_data; a cec_monitor_set_callback in
    \* progress (its user_data argument, not yet stored); the function and
    \* the user data the polling thread has read for the call it is about
    \* to make; the call it made last
    callback_data, setter, mt_fn, mt_data, cb_call

fsmVars == <<current_state, last_state, ps5_power, ps5_network, client_count,
             wake_requested, wake_completed, error_count, on_state_enter, led>>
wakeVars == <<wake_initialized, retry_count, last_wake_time, wake_callback, now>>
wkVars == <<wk_pc, wk_retry, wk_t0, wk_results, wake_pauses, wake_cb_log>>
raceVars == <<disk, saver, loader, stored>>
regVars == <<callback_data, setter, mt_fn, mt_data, cb_call>>
detVars == <<det_initialized, cache_file, det_info, det_saved, det_log,
             val_in, val_out, raceVars, regVars>>
cecVars == <<initialized, monitoring, cec_current_state, cec_last_state,
             consecutive_errors, state_callback>>
threadVars == <<mt_pc, mt_state, mutex, main_pc, upd_p1, g_server_ctx, g_running>>
histVars == <<led_calls, enter_log, enter_view, wake_attempts, power_cb_log,
              op, errRun, c6, c6a, poll_prev, poll_cb, polls, events,
              fail_run, ret, wkVars, detVars>>
vars == <<fsmVars, wakeVars, cecVars, threadVars, histVars>>

(***************************************************************************)
(* server_state_machine.c                                                  *)
(***************************************************************************)
\* (First a faulty switch that lacks the case of WAKING_PS5.)
map_server_state_to_led_no_waking_case(state) ==
    CASE state = "INIT" -> "LED_STATE_OFF"
      [] state = "MONITORING" -> "LED_STATE_PS5_OFF"
      [] state = "PS5_DETECTED" -> "LED_STATE_PS5_ON"
      [] state = "CLIENT_CONNECTED" -> "LED_STATE_VPN_CONNECTED"
      [] state = "ERROR" -> "LED_STATE_ERROR"
      [] OTHER -> "LED_STATE_OFF"

map_server_state_to_led(state) ==
    CASE state = "INIT" -> "LED_STATE_OFF"
      [] state = "MONITORING" -> "LED_STATE_PS5_OFF"
      [] state = "PS5_DETECTED" -> "LED_STATE_PS5_ON"
      [] state = "CLIENT_CONNECTED" -> "LED_STATE_VPN_CONNECTED"
      [] state = "WAKING_PS5" -> "LED_STATE_WAKING"
      [] state = "ERROR" -> "LED_STATE_ERROR"
      [] OTHER -> "LED_STATE_OFF"

\* The cases of the switch of server_sm_update: next_state computed from
\* the context.  p1 and p2 are the first and the second read of
\* ctx->ps5_power.  Each case is preceded by the faulty variants used to
\* test the properties stated about it.
case_init_stays(state) == state

case_init(state) == "MONITORING"

case_monitoring_errors_first(state, p1, clients, errors) ==
    IF errors > 5 THEN "ERROR"
    ELSE IF p1 = "ON" THEN "PS5_DETECTED"
    ELSE IF clients > 0 THEN "CLIENT_CONNECTED"
    ELSE state

case_monitoring_off_by_one(state, p1, clients, errors) ==
    IF p1 = "ON" THEN "PS5_DETECTED"
    ELSE IF clients > 0 THEN "CLIENT_CONNECTED"
    ELSE IF errors > 6 THEN "ERROR"
    ELSE state

case_monitoring(state, p1, clients, errors) ==
    IF p1 = "ON" THEN "PS5_DETECTED"
    ELSE IF clients > 0 THEN "CLIENT_CONNECTED"
    ELSE IF errors > 5 THEN "ERROR"
    ELSE state

case_ps5_detected_clients_first(state, p1, clients) ==
    IF clients > 0 THEN "CLIENT_CONNECTED"
    ELSE IF p1 # "ON" THEN "MONITORING"
    ELSE state

case_ps5_detected(state, p1, clients) ==
    IF p1 # "ON" THEN "MONITORING"
    ELSE IF clients > 0 THEN "CLIENT_CONNECTED"
    ELSE state

case_client_connected_ignores_power(state, p1, p2, clients, wr) ==
    IF wr THEN "WAKING_PS5"
    ELSE IF clients = 0
         THEN (IF p2 = "ON" THEN "PS5_DETECTED" ELSE "MONITORING")
    ELSE state

\* (And a faulty one that lacks the branch of the wake request.)
case_client_connected_never_wakes(state, p1, p2, clients, wr) ==
    IF clients = 0
    THEN (IF p2 = "ON" THEN "PS5_DETECTED" ELSE "MONITORING")
    ELSE state

case_client_connected(state, p1, p2, clients, wr) ==
    IF wr /\ p1 # "ON" THEN "WAKING_PS5"
    ELSE IF clients = 0
         THEN (IF p2 = "ON" THEN "PS5_DETECTED" ELSE "MONITORING")
    ELSE state

case_waking_ps5(state, wc, errors) ==
    IF wc THEN "CLIENT_CONNECTED"
    ELSE IF errors > 3 THEN "ERROR"
    ELSE state

case_error_never_recovers(state, errors) == state

case_error(state, errors) ==
    IF errors = 0 THEN "INIT" ELSE state

next_state_of(state, p1, p2, clients, wr, wc, errors) ==
    CASE state = "INIT" -> case_init(state)
      [] state = "MONITORING" -> case_monitoring(state, p1, clients, errors)
      [] state = "PS5_DETECTED" -> case_ps5_detected(state, p1, clients)
      [] state = "CLIENT_CONNECTED" ->
            case_client_connected(state, p1, p2, clients, wr)
      [] state = "WAKING_PS5" -> case_waking_ps5(state, wc, errors)
      [] state = "ERROR" -> case_error(state, errors)
      [] OTHER -> "ERROR"

\* The flags after the switch of server_sm_update: only the WAKING_PS5 case
\* with wake_completed set clears them.
flags_cleared_never(state, wc) == FALSE

flags_cleared_by_update(state, wc) == state = "WAKING_PS5" /\ wc

(***************************************************************************)
(* ps5_wake.c : ps5_wake_send.  k is the platform's behaviour: the 1-based *)
(* index of the first platform_send_ps5_wake() that succeeds, 0 when every *)
(* attempt fails.                                                          *)
(***************************************************************************)
WakeOutcomes == 0..WAKE_MAX_RETRIES

ps5_wake_send_success(k) == k >= 1 /\ k <= WAKE_MAX_RETRIES

ps5_wake_send_attempts(k) ==
    IF ps5_wake_send_success(k) THEN k ELSE WAKE_MAX_RETRIES

ps5_wake_send_retry_count(k) ==
    IF ps5_wake_send_success(k) THEN 0 ELSE WAKE_MAX_RETRIES


(***************************************************************************)
(* Observers (not program state).                                          *)
(***************************************************************************)
Min(a, b) == IF a < b THEN a ELSE b

\* The scenario of section 8 of the specification, as the operations
\* expected in turn; a scenario counter is the number of operations matched
\* since the context was created, -1 once the run has left the scenario.
C6Script ==
    << {"update"}, {"power_ON"}, {"update"}, {"connect"}, {"update"},
       {"wake_requested"}, {"update"}, {"wake_completed_TRUE"}, {"update"} >>

C6aScript ==
    << {"update"}, {"power_ON"}, {"update"}, {"connect"}, {"update"},
       {"power_OFF", "power_STANDBY", "power_UNKNOWN"},
       {"wake_requested"}, {"update"}, {"wake_completed_TRUE"}, {"update"} >>

Advance(script, n, tok) ==
    IF n >= 0 /\ n < Len(script) /\ tok \in script[n + 1] THEN n + 1 ELSE -1

\* The context is in Monitoring with power != On and no connected client.
QuietMonitoring ==
    current_state = "MONITORING" /\ ps5_power # "ON" /\ client_count = 0

\* kind is "update" for server_sm_update and "other" for any other
\* operation; tok names the operation with its argument.  errRun counts the
\* error events raised in a row in QuietMonitoring; an update() keeps the
\* count of the run it follows, anything else ends the run.
Observe(kind, tok) ==
    /\ op' = kind
    /\ errRun' = IF tok = "error" /\ QuietMonitoring
                 THEN (IF op = "update" THEN 1 ELSE Min(errRun + 1, 6))
                 ELSE IF tok = "update" THEN errRun
                 ELSE 0
    /\ c6' = Advance(C6Script, c6, tok)
    /\ c6a' = Advance(C6aScript, c6a, tok)

(***************************************************************************)
(* main.c : on_state_enter, the state-enter callback the daemon registers, *)
(* with everything it calls: cec_monitor_start() on MONITORING and         *)
(* ps5_wake_send() on WAKING_PS5, whose completion callback                *)
(* on_ps5_wake_completed raises server_sm_on_wake_completed.               *)
(*   k        : outcome of the platform's wake attempts                    *)
(*   thr_ok   : whether pthread_create succeeds                            *)
(***************************************************************************)
calls_cec_monitor_start(cb, new_state) ==
    cb = "on_state_enter" /\ new_state = "MONITORING"

\* (First a faulty switch that sends the wake command under the wrong case
\* label.)
calls_ps5_wake_send_on_connect(cb, new_state) ==
    cb = "on_state_enter" /\ new_state = "CLIENT_CONNECTED"

calls_ps5_wake_send(cb, new_state) ==
    cb = "on_state_enter" /\ new_state = "WAKING_PS5"

\* cec_monitor_start(): launches the polling thread unless not initialized or
\* already monitoring.
\* (First a faulty test that forgets the monitoring flag.)
cec_monitor_start_launches_again == initialized

cec_monitor_start_launches == initialized /\ ~monitoring

cec_monitor_start_effect(thr_ok) ==
    \* mt_pc becomes "two_threads" if a thread is created while one exists.
    IF cec_monitor_start_launches
    THEN /\ monitoring' = thr_ok
         /\ mt_pc' = IF ~thr_ok THEN mt_pc
                    ELSE IF mt_pc = "none" THEN "loop"
                    ELSE "two_threads"
    ELSE /\ thr_ok
         /\ UNCHANGED <<monitoring, mt_pc>>

\* The value cec_monitor_start() returns.
cec_monitor_start_result(thr_ok) ==
    IF ~initialized THEN -1
    ELSE IF monitoring THEN 0
    ELSE IF thr_ok THEN 0 ELSE -1

\* on_ps5_wake_completed reaches the context only through g_server_ctx.
wake_completion_reaches_ctx ==
    wake_callback = "on_ps5_wake_completed" /\ g_server_ctx = "ctx"

\* server_sm_on_wake_completed(ctx, success) on the flag and the counter.
\* (First a faulty variant in which a failure leaves a set flag set.)
wake_completed_after_sticky(wc0, success) == wc0 \/ success

wake_completed_after(wc0, success) == success

\* (First a faulty one that forgets the earlier errors on a success.)
error_count_after_wake_clears(ec0, success) ==
    IF success THEN 0 ELSE ec0 + 1

error_count_after_wake(ec0, success) == IF success THEN ec0 ELSE ec0 + 1

\* ps5_wake_send() on the wake controller's own context.
ps5_wake_send_effect(k) ==
    /\ retry_count' = ps5_wake_send_retry_count(k)
    /\ last_wake_time' = IF ps5_wake_send_success(k) THEN now ELSE last_wake_time
    /\ wake_attempts' = ps5_wake_send_attempts(k)

\* The context and the indicator as they are when server_sm_transition
\* invokes the callback, after its assignments and update_led_for_state.
\* (First a faulty order that invokes the callback before them.)
ctx_seen_by_callback_too_early(cur, last, signal, new_state) ==
    [current |-> cur, last |-> last, led |-> signal]

ctx_seen_by_callback(cur, last, signal, new_state) ==
    [current |-> new_state, last |-> cur,
     led |-> map_server_state_to_led(new_state)]

(***************************************************************************)
(* server_sm_transition(ctx, new_state), entered with the flags wr0, wc0   *)
(* left by the caller.  Sets every variable but main_pc and the observers. *)
(***************************************************************************)
server_sm_transition(new_state, wr0, wc0, k, thr_ok) ==
    /\ last_state' = current_state
    /\ current_state' = new_state
    /\ led' = map_server_state_to_led(new_state)
    /\ led_calls' = 1
    /\ enter_log' = IF on_state_enter # "NULL" THEN <<new_state>> ELSE <<>>
    /\ enter_view' = IF on_state_enter # "NULL"
                     THEN <<ctx_seen_by_callback(current_state, last_state,
                                                 led, new_state)>>
                     ELSE <<>>
    /\ wake_requested' = wr0
    /\ IF calls_cec_monitor_start(on_state_enter, new_state)
       THEN cec_monitor_start_effect(thr_ok)
       ELSE /\ thr_ok
            /\ UNCHANGED <<monitoring, mt_pc>>
    /\ IF calls_ps5_wake_send(on_state_enter, new_state)
       THEN /\ ps5_wake_send_effect(k)
            /\ IF wake_completion_reaches_ctx
               THEN /\ wake_completed' =
                          wake_completed_after(wc0, ps5_wake_send_success(k))
                    /\ error_count' =
                          error_count_after_wake(error_count, ps5_wake_send_success(k))
                    /\ error_count' <= MaxErrors
               ELSE /\ wake_completed' = wc0
                    /\ UNCHANGED error_count
       ELSE /\ k = 1
            /\ wake_completed' = wc0
            /\ wake_attempts' = 0
            /\ UNCHANGED <<error_count, retry_count, last_wake_time>>
    /\ UNCHANGED <<ps5_power, ps5_network, client_count, on_state_enter,
                   wake_callback, wake_initialized, now, initialized,
                   cec_current_state,
                   cec_last_state, consecutive_errors, state_callback,
                   mt_state, mutex, upd_p1, g_server_ctx, g_running,
                   power_cb_log, poll_prev, poll_cb, polls,
                   fail_run, ret, wkVars, detVars>>

\* The test that ends server_sm_update.  (First a faulty variant that
\* transitions on every tick.)
update_transitions_always(next_state, cur) == TRUE

update_transitions(next_state, cur) == next_state # cur

\* server_sm_update(ctx) with p1, p2 the two reads of ctx->ps5_power.
server_sm_update(p1, p2, k, thr_ok) ==
    LET ns == next_state_of(current_state, p1, p2, client_count,
                            wake_requested, wake_completed, error_count)
        clr == flags_cleared_by_update(current_state, wake_completed)
        wr0 == IF clr THEN FALSE ELSE wake_requested
        wc0 == IF clr THEN FALSE ELSE wake_completed
    IN  IF update_transitions(ns, current_state)
        THEN server_sm_transition(ns, wr0, wc0, k, thr_ok)
        ELSE /\ k = 1 /\ thr_ok
             /\ wake_requested' = wr0
             /\ wake_completed' = wc0
             /\ led_calls' = 0
             /\ enter_log' = <<>> /\ enter_view' = <<>>
             /\ wake_attempts' = 0
             /\ UNCHANGED <<current_state, last_state, ps5_power, ps5_network,
                            client_count, error_count, on_state_enter, led,
                            wakeVars, cecVars, mt_pc, mt_state, mutex, upd_p1,
                            g_server_ctx, g_running, power_cb_log, poll_prev,
                            poll_cb, polls,
                   fail_run, ret, wkVars, detVars>>

\* The event setters: one field each, no indicator update, no callback.
\* (First a faulty power-changed that re-evaluates the state on the spot.)
server_sm_on_ps5_power_changed_synchronous(power) ==
    /\ ps5_power' = power
    /\ last_state' = current_state
    /\ current_state' = IF current_state = "MONITORING" /\ power = "ON"
                        THEN "PS5_DETECTED" ELSE current_state
    /\ led' = map_server_state_to_led(current_state')
    /\ led_calls' = 1
    /\ enter_log' = <<>> /\ enter_view' = <<>>
    /\ UNCHANGED <<ps5_network, client_count, wake_requested, wake_completed,
                   error_count, on_state_enter>>

server_sm_on_ps5_power_changed(power) ==
    /\ ps5_power' = power
    /\ led_calls' = 0
    /\ enter_log' = <<>> /\ enter_view' = <<>>
    /\ UNCHANGED <<current_state, last_state, ps5_network, client_count,
                   wake_requested, wake_completed, error_count,
                   on_state_enter, led>>

server_sm_on_ps5_network_changed(status) ==
    /\ ps5_network' = status
    /\ led_calls' = 0
    /\ enter_log' = <<>> /\ enter_view' = <<>>
    /\ UNCHANGED <<current_state, last_state, ps5_power, client_count,
                   wake_requested, wake_completed, error_count,
                   on_state_enter, led>>

server_sm_on_client_connected ==
    /\ client_count < MaxClients
    /\ client_count' = client_count + 1
    /\ led_calls' = 0
    /\ enter_log' = <<>> /\ enter_view' = <<>>
    /\ UNCHANGED <<current_state, last_state, ps5_power, ps5_network,
                   wake_requested, wake_completed, error_count,
                   on_state_enter, led>>

\* (First a faulty one without the test client_count > 0.)
server_sm_on_client_disconnected_unfloored ==
    /\ client_count' = client_count - 1
    /\ led_calls' = 0
    /\ enter_log' = <<>> /\ enter_view' = <<>>
    /\ UNCHANGED <<current_state, last_state, ps5_power, ps5_network,
                   wake_requested, wake_completed, error_count,
                   on_state_enter, led>>

server_sm_on_client_disconnected ==
    /\ client_count' = IF client_count > 0 THEN client_count - 1 ELSE client_count
    /\ led_calls' = 0
    /\ enter_log' = <<>> /\ enter_view' = <<>>
    /\ UNCHANGED <<current_state, last_state, ps5_power, ps5_network,
                   wake_requested, wake_completed, error_count,
                   on_state_enter, led>>

\* (First a faulty one that leaves the flag as it finds it.)
server_sm_on_wake_requested_forgets ==
    /\ wake_requested' = wake_requested
    /\ led_calls' = 0
    /\ enter_log' = <<>> /\ enter_view' = <<>>
    /\ UNCHANGED <<current_state, last_state, ps5_power, ps5_network,
                   client_count, wake_completed, error_count,
                   on_state_enter, led>>

server_sm_on_wake_requested ==
    /\ wake_requested' = TRUE
    /\ led_calls' = 0
    /\ enter_log' = <<>> /\ enter_view' = <<>>
    /\ UNCHANGED <<current_state, last_state, ps5_power, ps5_network,
                   client_count, wake_completed, error_count,
                   on_state_enter, led>>

server_sm_on_wake_completed(success) ==
    /\ wake_completed' = wake_completed_after(wake_completed, success)
    /\ error_count' = error_count_after_wake(error_count, success)
    /\ error_count' <= MaxErrors
    /\ led_calls' = 0
    /\ enter_log' = <<>> /\ enter_view' = <<>>
    /\ UNCHANGED <<current_state, last_state, ps5_power, ps5_network,
                   client_count, wake_requested, on_state_enter, led>>

server_sm_on_error ==
    /\ error_count < MaxErrors
    /\ error_count' = error_count + 1
    /\ led_calls' = 0
    /\ enter_log' = <<>> /\ enter_view' = <<>>
    /\ UNCHANGED <<current_state, last_state, ps5_power, ps5_network,
                   client_count, wake_requested, wake_completed,
                   on_state_enter, led>>

\* (First a faulty reset that also forgets the registered callback.)
server_sm_reset_drops_callback ==
    /\ current_state' = "INIT"
    /\ last_state' = "INIT"
    /\ error_count' = 0
    /\ client_count' = 0
    /\ ps5_power' = "UNKNOWN"
    /\ ps5_network' = "NET_UNKNOWN"
    /\ wake_requested' = FALSE
    /\ wake_completed' = FALSE
    /\ led' = map_server_state_to_led("INIT")
    /\ led_calls' = 1
    /\ enter_log' = <<>> /\ enter_view' = <<>>
    /\ on_state_enter' = "NULL"

server_sm_reset ==
    /\ current_state' = "INIT"
    /\ last_state' = "INIT"
    /\ error_count' = 0
    /\ client_count' = 0
    /\ ps5_power' = "UNKNOWN"
    /\ ps5_network' = "NET_UNKNOWN"
    /\ wake_requested' = FALSE
    /\ wake_completed' = FALSE
    /\ led' = map_server_state_to_led("INIT")
    /\ led_calls' = 1
    /\ enter_log' = <<>> /\ enter_view' = <<>>
    /\ UNCHANGED on_state_enter

(***************************************************************************)
(* Spec: the orchestrator API called in any order by one thread, on the    *)
(* context as it is when run_main_loop reaches its loop: modules           *)
(* initialized, callbacks registered, monitor started.  The polling thread *)
(* is not scheduled in this specification.                                 *)
(***************************************************************************)
InitContext ==
    /\ current_state = "INIT"
    /\ last_state = "INIT"
    /\ error_count = 0
    /\ client_count = 0
    /\ ps5_power = "UNKNOWN"
    /\ ps5_network = "NET_UNKNOWN"
    /\ wake_requested = FALSE
    /\ wake_completed = FALSE
    /\ on_state_enter = "on_state_enter"
    /\ led = map_server_state_to_led("INIT")

InitWake ==
    /\ wake_initialized = TRUE
    /\ retry_count = 0
    /\ last_wake_time = 0
    /\ wake_callback = "on_ps5_wake_completed"
    /\ now = 0

InitMonitorStarted ==
    /\ initialized = TRUE
    /\ monitoring = TRUE
    /\ cec_current_state = "UNKNOWN"
    /\ cec_last_state = "UNKNOWN"
    /\ consecutive_errors = 0
    /\ state_callback = "on_ps5_power_changed"
    /\ mt_pc = "loop"
    /\ mt_state = "UNKNOWN"
    /\ mutex = "free"

(***************************************************************************)
(* ps5_detector.c : the data of the presence detector.                     *)
(***************************************************************************)
\* A detector error code or PS5_DETECT_OK
PS5_DETECT_CODES ==
    {PS5_DETECT_OK, PS5_DETECT_ERROR_NOT_INIT, PS5_DETECT_ERROR_NOT_FOUND,
     PS5_DETECT_ERROR_INVALID_PARAM, PS5_DETECT_ERROR_CACHE_INVALID}

\* ps5_info_t after memset(info, 0, sizeof(ps5_info_t))
ps5_info_zeroed == [ip |-> <<>>, mac |-> <<>>, last_seen |-> 0, online |-> FALSE]

\* An item of a parsed JSON object as cJSON presents it: absent (NULL from
\* cJSON_GetObjectItem), a string, a number, true, false or null.
JsonAbsent == [t |-> "absent", s |-> <<>>, n |-> 0]

JsonString(str) == [t |-> "string", s |-> str, n |-> 0]

JsonNumber(num) == [t |-> "number", s |-> <<>>, n |-> num]

JsonBool(b) == [t |-> IF b THEN "true" ELSE "false", s |-> <<>>, n |-> 0]

JsonNull == [t |-> "null", s |-> <<>>, n |-> 0]

\* The file at cache_path as load_cache_from_file can find it: absent,
\* not openable, of size 0, longer than 4096 bytes, text that cJSON_Parse
\* rejects, or JSON text with the four items looked up in it.
FileKinds == {"absent", "unreadable", "empty", "oversize", "unparsable", "json"}

FileOf(kind, ip, mac, last_seen, online) ==
    [kind |-> kind, ip |-> ip, mac |-> mac, last_seen |-> last_seen,
     online |-> online]

NoFile == FileOf("absent", JsonAbsent, JsonAbsent, JsonAbsent, JsonAbsent)

\* snprintf(dst, size, "%s", src): at most size - 1 characters are kept.
snprintf_s(size, src) ==
    IF Len(src) <= size - 1 THEN src ELSE SubSeq(src, 1, size - 1)

\* A hardware address and an address of the right form, used as inputs.
MacA ==
    <<"a", "A", ":", "0", "9", ":", "f", "F", ":", "1", "b", ":", "C", "d", ":",
      "e", "5">>

IpA == <<"1", ".", "2", ".", "3", ".", "4">>

(***************************************************************************)
(* ps5_detector.c : the cache file.  cJSON writes and reads back strings   *)
(* and integral numbers of this size unchanged; the in-memory copy         *)
(* cached_info / cache_timestamp of the context is written and never read, *)
(* and is left out.                                                        *)
(***************************************************************************)
\* The age test of load_cache_from_file.  (First a faulty variant that
\* rejects a record of exactly the maximal age.)
cache_too_old_at_limit(t, last_seen) == t - last_seen >= PS5_CACHE_MAX_AGE

cache_too_old(t, last_seen) == t - last_seen > PS5_CACHE_MAX_AGE

\* Whether load_cache_from_file gets as far as filling *info: the file is
\* there, opens, has 1..4096 bytes, parses, and has the three items tested.
load_cache_extracts(file) ==
    /\ file.kind = "json"
    /\ file.ip.t = "string"
    /\ file.mac.t = "string"
    /\ file.last_seen.t = "number"

\* *info as load_cache_from_file leaves it
load_cache_info(file) ==
    IF load_cache_extracts(file)
    THEN [ip |-> snprintf_s(PS5_IP_MAX_LEN, file.ip.s),
          mac |-> snprintf_s(PS5_MAC_MAX_LEN, file.mac.s),
          last_seen |-> file.last_seen.n,
          online |-> file.online.t = "true"]
    ELSE ps5_info_zeroed

\* the value load_cache_from_file returns at time t
load_cache_result(file, t) ==
    IF ~load_cache_extracts(file)
    THEN PS5_DETECT_ERROR_CACHE_INVALID
    ELSE IF cache_too_old(t, file.last_seen.n)
    THEN PS5_DETECT_ERROR_CACHE_INVALID
    ELSE PS5_DETECT_OK

\* The file as save_cache_to_file leaves it; fopen_ok tells whether
\* fopen(cache_path, "w") succeeds.
save_cache_file(file, info, fopen_ok) ==
    IF fopen_ok
    THEN FileOf("json", JsonString(info.ip), JsonString(info.mac),
                JsonNumber(info.last_seen), JsonBool(info.online))
    ELSE file

save_cache_result(fopen_ok) ==
    IF fopen_ok THEN PS5_DETECT_OK ELSE PS5_DETECT_ERROR_CACHE_INVALID

\* No file at cache_path, no save and no load in progress.
NoDisk == [exists |-> FALSE, bytes |-> <<>>]

SaverIdle == [pc |-> "idle", info |-> ps5_info_zeroed, json_str |-> <<>>]

LoaderIdle == [pc |-> "idle", file_size |-> 0, json_str |-> <<>>]

\* No registration in progress, nothing read by the polling thread, no
\* call made; callback_data is NULL after the memset of the context.
InitRegistrationIdle ==
    /\ callback_data = "NULL"
    /\ setter = <<>>
    /\ mt_fn = "unread"
    /\ mt_data = "unread"
    /\ cb_call = <<>>

InitRaceIdle ==
    /\ InitRegistrationIdle
    /\ disk = NoDisk
    /\ saver = SaverIdle
    /\ loader = LoaderIdle
    /\ stored = <<>>

InitDetectorZero ==
    /\ det_initialized = FALSE
    /\ cache_file = NoFile
    /\ det_info = ps5_info_zeroed
    /\ det_saved = <<>>
    /\ det_log = <<>>
    /\ InitRaceIdle

\* No validator has been called.
NoCall == [fn |-> "none", ok |-> FALSE]

InitDetectorIdle ==
    /\ InitDetectorZero
    /\ val_in = <<>>
    /\ val_out = NoCall

InitObservers ==
    /\ led_calls = 1
    /\ enter_log = <<>>
    /\ enter_view = <<>>
    /\ wake_attempts = 0
    /\ power_cb_log = <<>>
    /\ op = "other"
    /\ errRun = 0
    /\ c6 = 0
    /\ c6a = 0
    /\ poll_prev = "UNKNOWN"
    /\ poll_cb = "untested"
    /\ polls = 0
    /\ fail_run = 0
    /\ ret = <<"none", 0>>
    /\ wk_pc = "idle"
    /\ wk_retry = 0
    /\ wk_t0 = 0
    /\ wk_results = <<>>
    /\ wake_pauses = 0
    /\ wake_cb_log = <<>>
    /\ events = 0

Init ==
    /\ InitContext
    /\ g_server_ctx = "ctx"
    /\ InitWake
    /\ InitMonitorStarted
    /\ InitObservers
    /\ InitDetectorIdle
    /\ main_pc = "api"
    /\ upd_p1 = "UNKNOWN"
    /\ g_running = TRUE

\* What an event setter or reset leaves alone outside the context.
ApiFrame ==
    /\ wake_attempts' = 0
    /\ UNCHANGED <<wakeVars, cecVars, threadVars, power_cb_log, poll_prev,
                   poll_cb, polls, events,
                   fail_run, ret, wkVars, detVars>>

PowerToken(p) ==
    CASE p = "ON" -> "power_ON"
      [] p = "OFF" -> "power_OFF"
      [] p = "STANDBY" -> "power_STANDBY"
      [] OTHER -> "power_UNKNOWN"

Update ==
    \E k \in WakeOutcomes, thr_ok \in BOOLEAN :
        /\ server_sm_update(ps5_power, ps5_power, k, thr_ok)
        /\ UNCHANGED <<main_pc, events>>
        /\ Observe("update", "update")

Transition ==
    \E s \in ServerStates, k \in WakeOutcomes, thr_ok \in BOOLEAN :
        /\ server_sm_transition(s, wake_requested, wake_completed, k, thr_ok)
        /\ UNCHANGED <<main_pc, events>>
        /\ Observe("other", "transition")

PowerChanged ==
    \E p \in PowerStates :
        /\ server_sm_on_ps5_power_changed(p)
        /\ ApiFrame
        /\ Observe("other", PowerToken(p))

NetworkChanged ==
    \E n \in NetworkStatuses :
        /\ server_sm_on_ps5_network_changed(n)
        /\ ApiFrame
        /\ Observe("other", "network_changed")

ClientConnected ==
    /\ server_sm_on_client_connected
    /\ ApiFrame
    /\ Observe("other", "connect")

ClientDisconnected ==
    /\ server_sm_on_client_disconnected
    /\ ApiFrame
    /\ Observe("other", "disconnect")

WakeRequested ==
    /\ server_sm_on_wake_requested
    /\ ApiFrame
    /\ Observe("other", "wake_requested")

WakeCompleted ==
    \E success \in BOOLEAN :
        /\ server_sm_on_wake_completed(success)
        /\ ApiFrame
        /\ Observe("other", IF success THEN "wake_completed_TRUE"
                            ELSE "wake_completed_FALSE")

Error ==
    /\ server_sm_on_error
    /\ ApiFrame
    /\ Observe("other", "error")

Reset ==
    /\ server_sm_reset
    /\ ApiFrame
    /\ Observe("other", "reset")

\* The event operations of the orchestrator.
EventOp ==
    \/ PowerChanged
    \/ NetworkChanged
    \/ ClientConnected
    \/ ClientDisconnected
    \/ WakeRequested
    \/ WakeCompleted
    \/ Error

Next ==
    \/ Update
    \/ Transition
    \/ PowerChanged
    \/ NetworkChanged
    \/ ClientConnected
    \/ ClientDisconnected
    \/ WakeRequested
    \/ WakeCompleted
    \/ Error
    \/ Reset

Spec == Init /\ [][Next]_vars

\* SpecEvents: the orchestrator driven through update(), the event
\* operations and reset() only, without explicit calls of
\* server_sm_transition.
NextEvents ==
    \/ Update
    \/ PowerChanged
    \/ NetworkChanged
    \/ ClientConnected
    \/ ClientDisconnected
    \/ WakeRequested
    \/ WakeCompleted
    \/ Error
    \/ Reset

SpecEvents == Init /\ [][NextEvents]_vars

\* SpecEventsTicks: the same, with update() called again and again.
SpecEventsTicks == Init /\ [][NextEvents]_vars /\ WF_vars(Update)

TypeOK ==
    /\ current_state \in ServerStates
    /\ last_state \in ServerStates
    /\ ps5_power \in PowerStates
    /\ ps5_network \in NetworkStatuses
    /\ client_count \in 0..MaxClients
    /\ error_count \in 0..MaxErrors
    /\ wake_requested \in BOOLEAN
    /\ wake_completed \in BOOLEAN
    /\ retry_count \in 0..WAKE_MAX_RETRIES
    /\ errRun \in 0..6

(***************************************************************************)
(* cec_monitor.c : the API, called from the main thread.                   *)
(***************************************************************************)
\* memset(&g_cec_ctx, 0, ...) followed by the assignments of
\* cec_monitor_init; the registered callback is wiped with the rest.
cec_ctx_zeroed ==
    /\ monitoring' = FALSE
    /\ cec_current_state' = "UNKNOWN"
    /\ cec_last_state' = "UNKNOWN"
    /\ consecutive_errors' = 0
    /\ state_callback' = "NULL"
    /\ mutex' = "free"

cec_monitor_init ==
    IF initialized
    THEN UNCHANGED <<cecVars, mutex>>
    ELSE /\ cec_ctx_zeroed
         /\ initialized' = TRUE

cec_monitor_set_callback(callback) ==
    /\ state_callback' = callback
    /\ UNCHANGED <<initialized, monitoring, cec_current_state, cec_last_state,
                   consecutive_errors>>

\* cec_monitor_start(): see cec_monitor_start_effect above; it returns at
\* once when the monitor is not initialized or already monitoring.
cec_monitor_start(thr_ok) ==
    /\ cec_monitor_start_effect(thr_ok)
    /\ UNCHANGED <<initialized, cec_current_state, cec_last_state,
                   consecutive_errors, state_callback>>

\* cec_monitor_stop() up to pthread_join: returns at once (FALSE) unless the
\* monitor is initialized and monitoring, else clears the flag and waits.
cec_monitor_stop_waits == initialized /\ monitoring

cec_monitor_stop_begin ==
    /\ monitoring' = IF cec_monitor_stop_waits THEN FALSE ELSE monitoring
    /\ UNCHANGED <<initialized, cec_current_state, cec_last_state,
                   consecutive_errors, state_callback>>

\* pthread_join returns once the polling thread has left monitor_thread_func.
\* (First a faulty one that does not wait for the thread.)
pthread_join_returns_at_once ==
    /\ mt_pc' = mt_pc

pthread_join_returns ==
    /\ mt_pc = "exit"
    /\ mt_pc' = "none"

\* The end of cec_monitor_cleanup(): mutex destroyed, context zeroed.
cec_monitor_cleanup_wipe ==
    /\ cec_ctx_zeroed
    /\ initialized' = FALSE

(***************************************************************************)
(* cec_monitor.c : monitor_thread_func and change_ps5_state, one action    *)
(* per step of the polling thread.  mt_pc is                               *)
(*   "none"        no thread                                               *)
(*   "loop"        at the test of the while loop                           *)
(*   "chg_lock"    in change_ps5_state, before pthread_mutex_lock          *)
(*   "chg_write"   holding the mutex                                       *)
(*   "chg_cb"      after the unlock, before the callback test              *)
(*   "in_callback" inside on_ps5_power_changed (main.c)                    *)
(*   "sleep"       in usleep                                               *)
(*   "exit"        returned from monitor_thread_func, not yet joined       *)
(***************************************************************************)
PollResults == PowerStates

\* What the loop body decides for the polled value v: the new error counter
\* and whether change_ps5_state is called (always with v).
errors_after_poll(v) ==
    IF v # "UNKNOWN" THEN 0 ELSE consecutive_errors + 1

\* (First a faulty one that degrades one failure late.)
poll_changes_state_one_late(v) ==
    IF v # "UNKNOWN"
    THEN v # cec_current_state
    ELSE /\ errors_after_poll(v) > CEC_MAX_CONSECUTIVE_ERRORS
         /\ cec_current_state # "UNKNOWN"

poll_changes_state(v) ==
    IF v # "UNKNOWN"
    THEN v # cec_current_state
    ELSE /\ errors_after_poll(v) >= CEC_MAX_CONSECUTIVE_ERRORS
         /\ cec_current_state # "UNKNOWN"

\* change_ps5_state returns at once when the state is already new_state.
change_ps5_state_returns_early(new_state) == new_state = cec_current_state

\* The assignments change_ps5_state makes while it holds the mutex.
\* (First a faulty one that records the change but publishes nothing.)
change_ps5_state_keeps_old(new_state) ==
    /\ cec_last_state' = cec_current_state
    /\ cec_current_state' = cec_current_state

change_ps5_state_publish(new_state) ==
    /\ cec_last_state' = cec_current_state
    /\ cec_current_state' = new_state

\* The owner of the mutex once change_ps5_state has made its assignments:
\* pthread_mutex_unlock comes before the logging and the callback.
\* (First a faulty one that keeps the mutex until the function returns.)
mutex_after_publish_still_held == "monitor"

mutex_after_publish == "free"

MtOthers ==
    UNCHANGED <<fsmVars, wakeVars, main_pc, upd_p1, g_server_ctx, g_running,
                led_calls, enter_log, enter_view, wake_attempts, op, errRun, c6, c6a,
                events>>

\* One pass of the loop up to the call of change_ps5_state or the usleep.
\* counted: the poll counts against MaxPolls.
MtPoll(counted) ==
    /\ mt_pc = "loop"
    /\ monitoring
    /\ IF counted
       THEN polls < MaxPolls /\ polls' = polls + 1
       ELSE UNCHANGED polls
    /\ UNCHANGED <<ret, wkVars, detVars>>
    /\ \E v \in PollResults :
        /\ errors_after_poll(v) <= MaxConsecutiveErrors
        /\ mt_state' = v
        /\ consecutive_errors' = errors_after_poll(v)
        /\ fail_run' = IF v = "UNKNOWN" THEN fail_run + 1 ELSE 0
        /\ mt_pc' = IF poll_changes_state(v)
                       /\ ~change_ps5_state_returns_early(v)
                    THEN "chg_lock" ELSE "sleep"
    /\ power_cb_log' = <<>>
    /\ poll_prev' = cec_current_state
    /\ poll_cb' = "untested"
    /\ UNCHANGED <<initialized, monitoring, cec_current_state, cec_last_state,
                   state_callback, mutex>>
    /\ MtOthers

MtExit ==
    /\ mt_pc = "loop"
    /\ ~monitoring
    /\ mt_pc' = "exit"
    /\ UNCHANGED <<cecVars, mt_state, mutex, power_cb_log, poll_prev, poll_cb,
                   polls,
                   fail_run, ret, wkVars, detVars>>
    /\ MtOthers

MtLock ==
    /\ mt_pc = "chg_lock"
    /\ mutex = "free"
    /\ mutex' = "monitor"
    /\ mt_pc' = "chg_write"
    /\ UNCHANGED <<cecVars, mt_state, power_cb_log, poll_prev, poll_cb, polls,
                   fail_run, ret, wkVars, detVars>>
    /\ MtOthers

MtWrite ==
    /\ mt_pc = "chg_write"
    /\ change_ps5_state_publish(mt_state)
    /\ mutex' = mutex_after_publish
    /\ mt_pc' = "chg_cb"
    /\ UNCHANGED <<initialized, monitoring, consecutive_errors, state_callback,
                   mt_state, power_cb_log, poll_prev, poll_cb, polls,
                   fail_run, ret, wkVars, detVars>>
    /\ MtOthers

MtInvokeCallback ==
    /\ mt_pc = "chg_cb"
    /\ IF state_callback # "NULL"
       THEN /\ power_cb_log' = Append(power_cb_log, mt_state)
            /\ mt_pc' = "in_callback"
       ELSE /\ mt_pc' = "sleep"
            /\ UNCHANGED power_cb_log
    /\ poll_cb' = state_callback
    /\ UNCHANGED <<cecVars, mt_state, mutex, poll_prev, polls,
                   fail_run, ret, wkVars, detVars>>
    /\ MtOthers

\* main.c : on_ps5_power_changed, run by the polling thread: it calls
\* server_sm_on_ps5_power_changed when g_server_ctx is set (the broadcast
\* that follows touches no modelled state).
MtCallbackBody ==
    /\ mt_pc = "in_callback"
    /\ IF g_server_ctx = "ctx"
       THEN server_sm_on_ps5_power_changed(mt_state)
       ELSE UNCHANGED <<fsmVars, led_calls, enter_log, enter_view>>
    /\ mt_pc' = "sleep"
    /\ UNCHANGED <<wakeVars, cecVars, mt_state, mutex, main_pc, upd_p1,
                   g_server_ctx, g_running, wake_attempts, power_cb_log,
                   op, errRun, c6, c6a, poll_prev, poll_cb, polls, events,
                   fail_run, ret, wkVars, detVars>>

MtSleep ==
    /\ mt_pc = "sleep"
    /\ mt_pc' = "loop"
    /\ UNCHANGED <<cecVars, mt_state, mutex, power_cb_log, poll_prev, poll_cb,
                   polls,
                   fail_run, ret, wkVars, detVars>>
    /\ MtOthers

(***************************************************************************)
(* SpecMonitor: the power monitor alone, from process start: its API       *)
(* called in any order by the main thread, and the polling thread.  No     *)
(* orchestrator context exists (g_server_ctx is NULL).                     *)
(***************************************************************************)
MonitorCallbacks == {"NULL", "on_ps5_power_changed"}

InitMonitorZero ==
    /\ initialized = FALSE
    /\ monitoring = FALSE
    /\ cec_current_state = "UNKNOWN"
    /\ cec_last_state = "UNKNOWN"
    /\ consecutive_errors = 0
    /\ state_callback = "NULL"
    /\ mt_pc = "none"
    /\ mt_state = "UNKNOWN"
    /\ mutex = "free"

InitMon ==
    /\ InitContext
    /\ g_server_ctx = "NULL"
    /\ InitWake
    /\ InitMonitorZero
    /\ InitObservers
    /\ InitDetectorIdle
    /\ main_pc = "api"
    /\ upd_p1 = "UNKNOWN"
    /\ g_running = TRUE

\* What a monitor API call leaves alone.  ret' names the call and its
\* result once it has returned, "..._pending" while it blocks.
MonApiOthers ==
    UNCHANGED <<fsmVars, wakeVars, mt_state, upd_p1, g_server_ctx, g_running,
                led_calls, enter_log, enter_view, wake_attempts, power_cb_log, op, errRun,
                c6, c6a, poll_prev, poll_cb, polls, events, wkVars, detVars>>

MonInit ==
    /\ main_pc = "api"
    /\ cec_monitor_init
    /\ fail_run' = IF initialized THEN fail_run ELSE 0
    /\ ret' = <<"init", 0>>
    /\ UNCHANGED <<mt_pc, main_pc>>
    /\ MonApiOthers

MonSetCallback ==
    /\ main_pc = "api"
    /\ \E cb \in MonitorCallbacks : cec_monitor_set_callback(cb)
    /\ ret' = <<"set_callback", 0>>
    /\ UNCHANGED <<mt_pc, mutex, main_pc, fail_run>>
    /\ MonApiOthers

MonStart ==
    /\ main_pc = "api"
    /\ \E thr_ok \in BOOLEAN :
        /\ cec_monitor_start(thr_ok)
        /\ ret' = <<"start", cec_monitor_start_result(thr_ok)>>
    /\ UNCHANGED <<mutex, main_pc, fail_run>>
    /\ MonApiOthers

MonStop ==
    /\ main_pc = "api"
    /\ cec_monitor_stop_begin
    /\ main_pc' = IF cec_monitor_stop_waits THEN "stop_join" ELSE "api"
    /\ ret' = <<IF cec_monitor_stop_waits THEN "stop_pending" ELSE "stop", 0>>
    /\ UNCHANGED <<mt_pc, mutex, fail_run>>
    /\ MonApiOthers

MonStopJoin ==
    /\ main_pc = "stop_join"
    /\ pthread_join_returns
    /\ main_pc' = "api"
    /\ ret' = <<"stop", 0>>
    /\ UNCHANGED <<cecVars, mutex, fail_run>>
    /\ MonApiOthers

\* cec_monitor_cleanup(): returns at once when not initialized, stops a
\* running monitor first.
MonCleanup ==
    /\ main_pc = "api"
    /\ IF ~initialized
       THEN /\ ret' = <<"cleanup", 0>>
            /\ UNCHANGED <<cecVars, mt_pc, mutex, main_pc, fail_run>>
       ELSE IF monitoring
       THEN /\ cec_monitor_stop_begin
            /\ main_pc' = "cleanup_join"
            /\ ret' = <<"cleanup_pending", 0>>
            /\ UNCHANGED <<mt_pc, mutex, fail_run>>
       ELSE /\ cec_monitor_cleanup_wipe
            /\ fail_run' = 0
            /\ ret' = <<"cleanup", 0>>
            /\ UNCHANGED <<mt_pc, main_pc>>
    /\ MonApiOthers

MonCleanupJoin ==
    /\ main_pc = "cleanup_join"
    /\ pthread_join_returns
    /\ cec_monitor_cleanup_wipe
    /\ fail_run' = 0
    /\ main_pc' = "api"
    /\ ret' = <<"cleanup", 0>>
    /\ MonApiOthers

MonitorPoll == MtPoll(FALSE)

NextMonitor ==
    \/ MonInit
    \/ MonSetCallback
    \/ MonStart
    \/ MonStop
    \/ MonStopJoin
    \/ MonCleanup
    \/ MonCleanupJoin
    \/ MonitorPoll
    \/ MtExit
    \/ MtLock
    \/ MtWrite
    \/ MtInvokeCallback
    \/ MtCallbackBody
    \/ MtSleep

SpecMonitor == InitMon /\ [][NextMonitor]_vars

(***************************************************************************)
(* SpecSetCallback: the monitor initialized and started with no callback,  *)
(* the main thread calling cec_monitor_set_callback() again and again      *)
(* while the polling thread delivers changes.  cec_monitor_set_callback    *)
(* stores the function and then the user data, without the mutex;          *)
(* change_ps5_state, after its unlock, tests state_callback and calls it   *)
(* with callback_data: separate reads of the context, the arguments in an  *)
(* order the build chooses, the function read again for the call or not.   *)
(* The two threads race on both fields.                                    *)
(***************************************************************************)
Registrations ==
    { <<"NULL", "NULL">>, <<"callback_a", "user_data_a">>,
      <<"callback_b", "user_data_b">> }

InitSetCallback ==
    /\ InitContext
    /\ g_server_ctx = "NULL"
    /\ InitWake
    /\ initialized = TRUE
    /\ monitoring = TRUE
    /\ cec_current_state = "UNKNOWN"
    /\ cec_last_state = "UNKNOWN"
    /\ consecutive_errors = 0
    /\ state_callback = "NULL"
    /\ mt_pc = "loop"
    /\ mt_state = "UNKNOWN"
    /\ mutex = "free"
    /\ InitObservers
    /\ InitDetectorIdle
    /\ main_pc = "api"
    /\ upd_p1 = "UNKNOWN"
    /\ g_running = TRUE

RegOthers ==
    UNCHANGED <<fsmVars, wakeVars, initialized, monitoring, cec_current_state,
                cec_last_state, consecutive_errors, mt_state, mutex, upd_p1,
                g_server_ctx, g_running, led_calls, enter_log, enter_view,
                wake_attempts, op, errRun, c6, c6a, poll_prev, poll_cb, polls,
                events, fail_run, wkVars, det_initialized, cache_file,
                det_info, det_saved, det_log, val_in, val_out, raceVars>>

\* cec_monitor_set_callback, first statement: the function is stored.
ScWriteFn ==
    /\ main_pc = "api"
    /\ \E reg \in Registrations :
        /\ state_callback' = reg[1]
        /\ setter' = <<reg[2]>>
    /\ main_pc' = "set_data"
    /\ ret' = <<"set_callback_pending", 0>>
    /\ UNCHANGED <<callback_data, mt_pc, mt_fn, mt_data, cb_call, power_cb_log>>
    /\ RegOthers

\* cec_monitor_set_callback, second statement: the user data is stored.
ScWriteData ==
    /\ main_pc = "set_data"
    /\ callback_data' = setter[1]
    /\ setter' = <<>>
    /\ main_pc' = "api"
    /\ ret' = <<"set_callback", 0>>
    /\ UNCHANGED <<state_callback, mt_pc, mt_fn, mt_data, cb_call, power_cb_log>>
    /\ RegOthers

RcThread ==
    /\ UNCHANGED <<state_callback, callback_data, setter, main_pc, ret>>
    /\ RegOthers

\* change_ps5_state: if (g_cec_ctx.state_callback)
RcTest ==
    /\ mt_pc = "chg_cb"
    /\ IF state_callback # "NULL"
       THEN /\ mt_fn' = state_callback
            /\ mt_pc' = "cb_args"
       ELSE /\ mt_fn' = "unread"
            /\ mt_pc' = "sleep"
    /\ mt_data' = "unread"
    /\ UNCHANGED <<cb_call, power_cb_log>>
    /\ RcThread

\* The call reads g_cec_ctx.state_callback again.
RcLoadFn ==
    /\ mt_pc = "cb_args"
    /\ mt_fn' = state_callback
    /\ UNCHANGED <<mt_pc, mt_data, cb_call, power_cb_log>>
    /\ RcThread

\* The call reads g_cec_ctx.callback_data.
RcLoadData ==
    /\ mt_pc = "cb_args"
    /\ mt_data = "unread"
    /\ mt_data' = callback_data
    /\ UNCHANGED <<mt_pc, mt_fn, cb_call, power_cb_log>>
    /\ RcThread

\* The call itself, with what was read; a call through a NULL function
\* ends the process.
RcCall ==
    /\ mt_pc = "cb_args"
    /\ mt_data # "unread"
    /\ cb_call' = <<mt_fn, mt_data>>
    /\ power_cb_log' = Append(power_cb_log, mt_state)
    /\ mt_pc' = IF mt_fn = "NULL" THEN "crashed" ELSE "sleep"
    /\ UNCHANGED <<mt_fn, mt_data>>
    /\ RcThread

NextSetCallback ==
    \/ ScWriteFn
    \/ ScWriteData
    \/ MonitorPoll
    \/ MtLock
    \/ MtWrite
    \/ RcTest
    \/ RcLoadFn
    \/ RcLoadData
    \/ RcCall
    \/ MtSleep

SpecSetCallback == InitSetCallback /\ [][NextSetCallback]_vars

(***************************************************************************)
(* SpecDaemon: main.c after initialize_modules: the main thread runs       *)
(* run_main_loop and then cleanup_modules, the polling thread runs         *)
(* monitor_thread_func.  main_pc is                                        *)
(*   "start"      entering run_main_loop                                   *)
(*   "loop"       at the test of while (g_running)                         *)
(*   "update_run" inside server_sm_update, after its first read of         *)
(*                ctx->ps5_power                                           *)
(*   "service"    in ws_server_service                                     *)
(*   "wake_send"  in handle_client_message, about to call ps5_wake_send    *)
(*   "cec_stop"   after ws_server_stop, calling cec_monitor_stop           *)
(*   "stop_join"  in pthread_join                                          *)
(*   "cleanup"    calling cleanup_modules                                  *)
(*   "exited"     after cleanup_modules                                    *)
(* ws_server_service hands the transport's events to the registered        *)
(* callbacks, at most one per call here.                                   *)
(***************************************************************************)
InitMonitorReady ==
    /\ initialized = TRUE
    /\ monitoring = FALSE
    /\ cec_current_state = "UNKNOWN"
    /\ cec_last_state = "UNKNOWN"
    /\ consecutive_errors = 0
    /\ state_callback = "on_ps5_power_changed"
    /\ mt_pc = "none"
    /\ mt_state = "UNKNOWN"
    /\ mutex = "free"

\* ps5_detector_init has succeeded; nothing has written cache_path yet.
InitDetectorReady ==
    /\ det_initialized = TRUE
    /\ cache_file = NoFile
    /\ det_info = ps5_info_zeroed
    /\ det_saved = <<>>
    /\ det_log = <<>>
    /\ InitRaceIdle
    /\ val_in = <<>>
    /\ val_out = NoCall

InitDaemon ==
    /\ InitContext
    /\ g_server_ctx = "ctx"
    /\ InitWake
    /\ InitMonitorReady
    /\ InitObservers
    /\ InitDetectorReady
    /\ main_pc = "start"
    /\ upd_p1 = "UNKNOWN"
    /\ g_running = TRUE

DaemonObserve(kind) ==
    /\ op' = kind
    /\ UNCHANGED <<errRun, c6, c6a>>

\* What a step of the main thread outside the orchestrator leaves alone.
DmOthers ==
    UNCHANGED <<mt_state, upd_p1, g_server_ctx, power_cb_log, poll_prev,
                poll_cb, polls, fail_run, wkVars, detVars>>

\* The block of the periodic check is left: its ps5_info and ps5_online
\* are gone.
NetCheckLocalsDropped ==
    /\ det_info' = ps5_info_zeroed
    /\ det_log' = <<>>
    /\ UNCHANGED <<det_initialized, cache_file, det_saved, val_in, val_out,
                   raceVars, regVars>>

DmStart ==
    /\ main_pc = "start"
    /\ \E thr_ok \in BOOLEAN : cec_monitor_start(thr_ok)
    /\ main_pc' = "loop"
    /\ UNCHANGED <<fsmVars, wakeVars, mutex, g_running, led_calls, enter_log, enter_view,
                   wake_attempts, events>>
    /\ DaemonObserve("other")
    /\ UNCHANGED ret
    /\ DmOthers

\* The signal handler clears g_running at any time.
DmSignal ==
    /\ g_running
    /\ main_pc # "start"
    /\ g_running' = FALSE
    /\ UNCHANGED <<fsmVars, wakeVars, cecVars, mt_pc, mutex, main_pc,
                   led_calls, enter_log, enter_view, wake_attempts, op, errRun, c6, c6a,
                   events>>
    /\ UNCHANGED ret
    /\ DmOthers

\* Entry of server_sm_update: the switch reads ctx->current_state and, in
\* every case that goes on, ctx->ps5_power.
DmUpdateBegin ==
    /\ main_pc = "loop"
    /\ g_running
    /\ g_server_ctx = "ctx"
    /\ upd_p1' = ps5_power
    /\ main_pc' = "update_run"
    /\ NetCheckLocalsDropped
    /\ UNCHANGED <<fsmVars, wakeVars, cecVars, mt_pc, mt_state, mutex,
                   g_server_ctx, g_running, led_calls, enter_log, enter_view,
                   wake_attempts, power_cb_log, op, errRun, c6, c6a,
                   poll_prev, poll_cb, polls, events, fail_run, ret, wkVars>>

\* The rest of server_sm_update, the transition and on_state_enter included.
DmUpdate ==
    /\ main_pc = "update_run"
    /\ \E k \in WakeOutcomes, thr_ok \in BOOLEAN :
           server_sm_update(upd_p1, ps5_power, k, thr_ok)
    /\ main_pc' = "service"
    /\ UNCHANGED events
    /\ DaemonObserve("update")

DmServiceFrame ==
    /\ main_pc = "service"
    /\ UNCHANGED <<cecVars, mt_pc, mutex, g_running>>
    /\ DaemonObserve("other")
    /\ DmOthers

DmServiceIdle ==
    /\ DmServiceFrame
    /\ main_pc' = "loop"
    /\ UNCHANGED <<fsmVars, wakeVars, led_calls, enter_log, enter_view, wake_attempts,
                   events, ret>>

DmCountEvent ==
    /\ events < MaxEvents
    /\ events' = events + 1

\* on_client_connected (main.c): the setter, then cec_monitor_get_state(),
\* which takes the monitor's mutex, for the status message.  ret' names
\* what the handler sends back, for a wake result with 1 for true.
DmClientConnected ==
    /\ DmServiceFrame
    /\ DmCountEvent
    /\ mutex = "free"
    /\ IF g_server_ctx = "ctx"
       THEN server_sm_on_client_connected
       ELSE UNCHANGED <<fsmVars, led_calls, enter_log, enter_view>>
    /\ wake_attempts' = 0
    /\ main_pc' = "loop"
    /\ ret' = <<"ps5_status", 0>>
    /\ UNCHANGED wakeVars

DmClientDisconnected ==
    /\ DmServiceFrame
    /\ DmCountEvent
    /\ client_count > 0
    /\ IF g_server_ctx = "ctx"
       THEN server_sm_on_client_disconnected
       ELSE UNCHANGED <<fsmVars, led_calls, enter_log, enter_view>>
    /\ wake_attempts' = 0
    /\ main_pc' = "loop"
    /\ ret' = <<"disconnected", 0>>
    /\ UNCHANGED wakeVars

\* handle_client_message, WS_MSG_QUERY_PS5: cec_monitor_get_state() takes
\* the mutex; a response, no state change.
DmQueryMessage ==
    /\ DmServiceFrame
    /\ DmCountEvent
    /\ client_count > 0
    /\ mutex = "free"
    /\ wake_attempts' = 0
    /\ main_pc' = "loop"
    /\ ret' = <<"ps5_status", 0>>
    /\ UNCHANGED <<fsmVars, wakeVars, led_calls, enter_log, enter_view>>

\* handle_client_message, WS_MSG_PING: strdup of the pong, nothing else.
DmPingMessage ==
    /\ DmServiceFrame
    /\ DmCountEvent
    /\ client_count > 0
    /\ main_pc' = "loop"
    /\ ret' = <<"pong", 0>>
    /\ UNCHANGED <<fsmVars, wakeVars, led_calls, enter_log, enter_view, wake_attempts>>

\* handle_client_message, WS_MSG_WAKE_PS5, first statement:
\* server_sm_on_wake_requested.
DmWakeMessage ==
    /\ DmServiceFrame
    /\ DmCountEvent
    /\ client_count > 0
    /\ IF g_server_ctx = "ctx"
       THEN server_sm_on_wake_requested
       ELSE UNCHANGED <<fsmVars, led_calls, enter_log, enter_view>>
    /\ wake_attempts' = 0
    /\ main_pc' = "wake_send"
    /\ ret' = <<"wake_pending", 0>>
    /\ UNCHANGED wakeVars

\* The value ps5_wake_send() returns and the success field of the response
\* built from it (1 for true).
ps5_wake_send_result(k) == IF ps5_wake_send_success(k) THEN 0 ELSE -1

wake_response_always_true(result) == 1

wake_response(result) == IF result = 0 THEN 1 ELSE 0

\* handle_client_message, WS_MSG_WAKE_PS5, the rest: ps5_wake_send() with
\* its completion callback, then the response.
DmWakeSend ==
    /\ main_pc = "wake_send"
    /\ \E k \in WakeOutcomes :
        /\ ps5_wake_send_effect(k)
        /\ IF wake_completion_reaches_ctx
           THEN /\ wake_completed' =
                      wake_completed_after(wake_completed, ps5_wake_send_success(k))
                /\ error_count' =
                      error_count_after_wake(error_count, ps5_wake_send_success(k))
                /\ error_count' <= MaxErrors
           ELSE UNCHANGED <<wake_completed, error_count>>
        /\ ret' = <<"wake_result", wake_response(ps5_wake_send_result(k))>>
    /\ led_calls' = 0
    /\ enter_log' = <<>> /\ enter_view' = <<>>
    /\ main_pc' = "loop"
    /\ UNCHANGED <<current_state, last_state, ps5_power, ps5_network,
                   client_count, wake_requested, on_state_enter, led,
                   wake_callback, wake_initialized, now, events>>
    /\ UNCHANGED <<cecVars, mt_pc, mutex, g_running>>
    /\ DaemonObserve("other")
    /\ DmOthers

\* The periodic check at the end of a pass of the loop, when check_counter
\* has reached 100: ps5_detector_get_cached reads the file as other
\* programs have left it by now (nothing in main.c writes it), ps5_online
\* is computed, and the block that would hand it on is empty: the call of
\* server_sm_on_ps5_network_changed in it is commented out.
ps5_online_of(detect_result, info) ==
    detect_result = PS5_DETECT_OK /\ info.online

network_check_reaches_ctx == FALSE

DaemonFiles ==
    {NoFile} \cup
    {FileOf("json", JsonString(IpA), JsonString(MacA), JsonNumber(0),
            JsonBool(online)) : online \in BOOLEAN}

DmNetCheck ==
    \E file \in DaemonFiles :
        /\ main_pc = "loop"
        /\ g_running
        /\ det_log = <<>>
        /\ cache_file' = file
        /\ det_info' = load_cache_info(file)
        /\ det_log' = <<"load">>
        /\ IF g_server_ctx = "ctx" /\ network_check_reaches_ctx
           THEN server_sm_on_ps5_network_changed(
                    IF ps5_online_of(load_cache_result(file, now),
                                     load_cache_info(file))
                    THEN "NET_ONLINE" ELSE "NET_OFFLINE")
           ELSE UNCHANGED <<fsmVars, led_calls, enter_log, enter_view>>
        /\ UNCHANGED <<wakeVars, cecVars, threadVars, wake_attempts,
                       power_cb_log, op, errRun, c6, c6a, poll_prev, poll_cb,
                       polls, events, fail_run, ret, wkVars, det_initialized,
                       det_saved, val_in, val_out, raceVars, regVars>>

\* Leaving the loop: ws_server_stop raises on_client_disconnected for every
\* active client.
DmWsStop ==
    /\ main_pc = "loop"
    /\ ~g_running
    /\ client_count' = 0
    /\ led_calls' = 0
    /\ enter_log' = <<>> /\ enter_view' = <<>>
    /\ wake_attempts' = 0
    /\ main_pc' = "cec_stop"
    /\ UNCHANGED <<current_state, last_state, ps5_power, ps5_network,
                   wake_requested, wake_completed, error_count,
                   on_state_enter, led, wakeVars, cecVars, mt_pc, mutex,
                   g_running, events>>
    /\ DaemonObserve("other")
    /\ UNCHANGED ret
    /\ NetCheckLocalsDropped
    /\ UNCHANGED <<mt_state, upd_p1, g_server_ctx, power_cb_log, poll_prev,
                   poll_cb, polls, fail_run, wkVars>>

DmCecStop ==
    /\ main_pc = "cec_stop"
    /\ cec_monitor_stop_begin
    /\ main_pc' = IF cec_monitor_stop_waits THEN "stop_join" ELSE "cleanup"
    /\ UNCHANGED <<fsmVars, wakeVars, mt_pc, mutex, g_running, led_calls,
                   enter_log, enter_view, wake_attempts, events>>
    /\ DaemonObserve("other")
    /\ UNCHANGED ret
    /\ DmOthers

DmStopJoin ==
    /\ main_pc = "stop_join"
    /\ pthread_join_returns
    /\ main_pc' = "cleanup"
    /\ UNCHANGED <<fsmVars, wakeVars, cecVars, mutex, g_running, led_calls,
                   enter_log, enter_view, wake_attempts, events>>
    /\ DaemonObserve("other")
    /\ UNCHANGED ret
    /\ DmOthers

\* cleanup_modules: the context is destroyed and g_server_ctx cleared, the
\* wake controller and the (stopped) monitor are zeroed.
DmCleanup ==
    /\ main_pc = "cleanup"
    /\ ~monitoring
    /\ g_server_ctx' = "NULL"
    /\ retry_count' = 0
    /\ last_wake_time' = 0
    /\ wake_callback' = "NULL"
    /\ wake_initialized' = FALSE
    /\ cec_monitor_cleanup_wipe
    /\ main_pc' = "exited"
    /\ fail_run' = 0
    /\ UNCHANGED <<fsmVars, now, mt_pc, mt_state, upd_p1, g_running, led_calls,
                   enter_log, enter_view, wake_attempts, power_cb_log, op, errRun, c6, c6a,
                   poll_prev, poll_cb, polls, events, ret, wkVars, detVars>>

DaemonPoll == MtPoll(TRUE)

NextDaemon ==
    \/ DmStart
    \/ DmSignal
    \/ DmUpdateBegin
    \/ DmUpdate
    \/ DmServiceIdle
    \/ DmClientConnected
    \/ DmClientDisconnected
    \/ DmQueryMessage
    \/ DmPingMessage
    \/ DmWakeMessage
    \/ DmWakeSend
    \/ DmNetCheck
    \/ DmWsStop
    \/ DmCecStop
    \/ DmStopJoin
    \/ DmCleanup
    \/ DaemonPoll
    \/ MtExit
    \/ MtLock
    \/ MtWrite
    \/ MtInvokeCallback
    \/ MtCallbackBody
    \/ MtSleep

SpecDaemon == InitDaemon /\ [][NextDaemon]_vars

(***************************************************************************)
(* SpecDaemonTicks: the main loop of the daemon running for ever (no       *)
(* signal), the platform reporting no change of power, and clients acting  *)
(* only while the orchestrator is outside WAKING_PS5.  Every step of the   *)
(* loop that the main thread can take is eventually taken.                 *)
(***************************************************************************)
OutsideWaking == current_state # "WAKING_PS5"

TkClientConnected == OutsideWaking /\ DmClientConnected

TkClientDisconnected == OutsideWaking /\ DmClientDisconnected

TkWakeMessage == OutsideWaking /\ DmWakeMessage

\* The run is not bounded in the number of events: the count of the events
\* delivered starts over.
TkRecount ==
    /\ events = MaxEvents
    /\ events' = 0
    /\ UNCHANGED <<fsmVars, wakeVars, cecVars, threadVars, led_calls,
                   enter_log, enter_view, wake_attempts, power_cb_log, op,
                   errRun, c6, c6a, poll_prev, poll_cb, polls, fail_run, ret,
                   wkVars, detVars>>

NextDaemonTicks ==
    \/ DmStart
    \/ DmUpdateBegin
    \/ DmUpdate
    \/ DmServiceIdle
    \/ TkClientConnected
    \/ TkClientDisconnected
    \/ TkWakeMessage
    \/ DmWakeSend
    \/ TkRecount

MainLoopRuns ==
    /\ WF_vars(DmStart)
    /\ WF_vars(DmUpdateBegin)
    /\ WF_vars(DmUpdate)
    /\ WF_vars(DmServiceIdle)
    /\ WF_vars(DmWakeSend)

SpecDaemonTicks == InitDaemon /\ [][NextDaemonTicks]_vars /\ MainLoopRuns

(***************************************************************************)
(* SpecWake: the wake controller alone, from process start: its API called *)
(* in any order by one thread, ps5_wake_send() one step per platform       *)
(* attempt and per pause.  wk_pc is                                        *)
(*   "idle"     no call in progress                                        *)
(*   "attempt"  in ps5_wake_send at the test of while (retry < ...)        *)
(*   "pause"    in the usleep between two attempts                         *)
(* No orchestrator context exists (g_server_ctx is NULL), so the           *)
(* completion callback on_ps5_wake_completed changes nothing.              *)
(***************************************************************************)
WakeCallbacks == {"NULL", "on_ps5_wake_completed"}

PlatformPowers ==
    {"PLATFORM_PS5_ON", "PLATFORM_PS5_STANDBY", "PLATFORM_PS5_OFF",
     "PLATFORM_PS5_OTHER"}

\* while (retry < WAKE_MAX_RETRIES)
wake_loop_continues_one_more(retry) == retry <= WAKE_MAX_RETRIES

wake_loop_continues(retry) == retry < WAKE_MAX_RETRIES

\* if (retry < WAKE_MAX_RETRIES) usleep(1000000), retry already incremented
wake_pause_after_every_failure(retry) == TRUE

wake_pause_after(retry) == retry < WAKE_MAX_RETRIES

\* The switch of ps5_wake_verify on the platform's answer: the state stored
\* through the pointer and the value returned.
ps5_wake_verify_state(power) ==
    CASE power = "PLATFORM_PS5_ON" -> "ON"
      [] power = "PLATFORM_PS5_STANDBY" -> "STANDBY"
      [] power = "PLATFORM_PS5_OFF" -> "OFF"
      [] OTHER -> "UNKNOWN"

ps5_wake_verify_result(power) ==
    CASE power = "PLATFORM_PS5_ON" -> 0
      [] power = "PLATFORM_PS5_STANDBY" -> 0
      [] power = "PLATFORM_PS5_OFF" -> -1
      [] OTHER -> -1

InitWakeZero ==
    /\ wake_initialized = FALSE
    /\ retry_count = 0
    /\ last_wake_time = 0
    /\ wake_callback = "NULL"
    /\ now = 0

InitWk ==
    /\ InitContext
    /\ g_server_ctx = "NULL"
    /\ InitWakeZero
    /\ InitMonitorZero
    /\ InitObservers
    /\ InitDetectorIdle
    /\ main_pc = "api"
    /\ upd_p1 = "UNKNOWN"
    /\ g_running = TRUE

WkOthers ==
    UNCHANGED <<fsmVars, cecVars, threadVars, led_calls, enter_log, enter_view,
                power_cb_log, op, errRun, c6, c6a, poll_prev, poll_cb, polls,
                events, fail_run, detVars>>

\* memset(&g_wake_ctx, 0, ...) of ps5_wake_init and ps5_wake_cleanup
wake_ctx_zeroed ==
    /\ retry_count' = 0
    /\ last_wake_time' = 0
    /\ wake_callback' = "NULL"

WkInit ==
    /\ wk_pc = "idle"
    /\ IF wake_initialized
       THEN UNCHANGED <<wake_initialized, retry_count, last_wake_time,
                        wake_callback>>
       ELSE /\ wake_ctx_zeroed
            /\ wake_initialized' = TRUE
    /\ ret' = <<"wake_init", 0>>
    /\ UNCHANGED <<now, wake_attempts, wkVars>>
    /\ WkOthers

WkCleanup ==
    /\ wk_pc = "idle"
    /\ IF wake_initialized
       THEN /\ wake_ctx_zeroed
            /\ wake_initialized' = FALSE
       ELSE UNCHANGED <<wake_initialized, retry_count, last_wake_time,
                        wake_callback>>
    /\ ret' = <<"wake_cleanup", 0>>
    /\ UNCHANGED <<now, wake_attempts, wkVars>>
    /\ WkOthers

WkSetCallback ==
    /\ wk_pc = "idle"
    /\ \E cb \in WakeCallbacks : wake_callback' = cb
    /\ ret' = <<"wake_set_callback", 0>>
    /\ UNCHANGED <<wake_initialized, retry_count, last_wake_time, now,
                   wake_attempts, wkVars>>
    /\ WkOthers

\* time(NULL) moves on between calls.
WkTick ==
    /\ wk_pc = "idle"
    /\ now < MaxTime
    /\ now' = now + 1
    /\ UNCHANGED <<wake_initialized, retry_count, last_wake_time,
                   wake_callback, wake_attempts, ret, wkVars>>
    /\ WkOthers

\* Entry of ps5_wake_send(): -1 at once when not initialized.
WkSendBegin ==
    /\ wk_pc = "idle"
    /\ IF wake_initialized
       THEN /\ wk_pc' = "attempt"
            /\ ret' = <<"send_pending", 0>>
       ELSE /\ wk_pc' = "idle"
            /\ ret' = <<"send", -1>>
    /\ wk_retry' = 0
    /\ wk_t0' = last_wake_time
    /\ wk_results' = <<>>
    /\ wake_pauses' = 0
    /\ wake_cb_log' = <<>>
    /\ wake_attempts' = 0
    /\ UNCHANGED wakeVars
    /\ WkOthers

\* One pass of the loop: execute_wake_command(), then either the success
\* branch (timestamp, counter, callback, return 0) or the retry branch.
WkAttempt ==
    /\ wk_pc = "attempt"
    /\ wake_loop_continues(wk_retry)
    /\ \E ok \in BOOLEAN :
        /\ wk_results' = Append(wk_results, ok)
        /\ wake_attempts' = wake_attempts + 1
        /\ IF ok
           THEN /\ last_wake_time' = now
                /\ retry_count' = 0
                /\ wake_cb_log' = IF wake_callback # "NULL"
                                  THEN Append(wake_cb_log, TRUE)
                                  ELSE wake_cb_log
                /\ ret' = <<"send", 0>>
                /\ wk_pc' = "idle"
                /\ UNCHANGED wk_retry
           ELSE /\ wk_retry' = wk_retry + 1
                /\ retry_count' = wk_retry + 1
                /\ wk_pc' = IF wake_pause_after(wk_retry + 1)
                            THEN "pause" ELSE "attempt"
                /\ UNCHANGED <<last_wake_time, wake_cb_log, ret>>
    /\ UNCHANGED <<wake_initialized, wake_callback, now, wk_t0, wake_pauses>>
    /\ WkOthers

\* usleep(1000000): a second passes.
WkPause ==
    /\ wk_pc = "pause"
    /\ now < MaxTime
    /\ now' = now + 1
    /\ wake_pauses' = wake_pauses + 1
    /\ wk_pc' = "attempt"
    /\ UNCHANGED <<wake_initialized, retry_count, last_wake_time,
                   wake_callback, wake_attempts, ret, wk_retry, wk_t0,
                   wk_results, wake_cb_log>>
    /\ WkOthers

\* After the loop: the failure callback and return -1.
WkGiveUp ==
    /\ wk_pc = "attempt"
    /\ ~wake_loop_continues(wk_retry)
    /\ wake_cb_log' = IF wake_callback # "NULL"
                      THEN Append(wake_cb_log, FALSE)
                      ELSE wake_cb_log
    /\ ret' = <<"send", -1>>
    /\ wk_pc' = "idle"
    /\ UNCHANGED <<wakeVars, wake_attempts, wk_retry, wk_t0, wk_results,
                   wake_pauses>>
    /\ WkOthers

\* ps5_wake_verify(&state) with a valid pointer: ret' holds the value
\* returned, the state stored through the pointer ("unset" when nothing is
\* stored) and the platform's answer ("none" when it is not asked).
WkVerify ==
    /\ wk_pc = "idle"
    /\ IF wake_initialized
       THEN \E power \in PlatformPowers :
               ret' = <<"verify", ps5_wake_verify_result(power),
                        ps5_wake_verify_state(power), power>>
       ELSE ret' = <<"verify", -1, "unset", "none">>
    /\ UNCHANGED <<wakeVars, wake_attempts, wkVars>>
    /\ WkOthers

NextWake ==
    \/ WkInit
    \/ WkCleanup
    \/ WkSetCallback
    \/ WkTick
    \/ WkSendBegin
    \/ WkAttempt
    \/ WkPause
    \/ WkGiveUp
    \/ WkVerify

SpecWake == InitWk /\ [][NextWake]_vars

(***************************************************************************)
(* ps5_detector.c : the string validators.  A C string is modelled as the  *)
(* sequence of its characters before the terminating NUL, each character a *)
(* one-character string.                                                   *)
(***************************************************************************)
DigitChars == <<"0", "1", "2", "3", "4", "5", "6", "7", "8", "9">>

\* isdigit(c) and the value c - '0'
isdigit(c) == \E i \in 1..Len(DigitChars) : DigitChars[i] = c

digit_value(c) == (CHOOSE i \in 1..Len(DigitChars) : DigitChars[i] = c) - 1

\* isxdigit(c)
isxdigit(c) ==
    \/ isdigit(c)
    \/ c \in {"a", "b", "c", "d", "e", "f", "A", "B", "C", "D", "E", "F"}

\* Whether position i (counted from 0) of a hardware address has to hold
\* the separator.  (First a faulty variant that counts from 1.)
mac_separator_at_from_one(i) == i % 3 = 0

mac_separator_at(i) == i % 3 = 2

\* ps5_detector_validate_mac(mac), mac not NULL
ps5_detector_validate_mac(mac) ==
    IF Len(mac) # 17
    THEN FALSE
    ELSE \A i \in 0..16 :
            IF mac_separator_at(i)
            THEN mac[i + 1] = ":"
            ELSE isxdigit(mac[i + 1])

\* The test ps5_detector_validate_ip makes of a finished group, at a dot
\* and at the end of the string.  (First a faulty variant that lets a
\* group of four digits pass.)
octet_rejected_over_four(has_digit, digits, current_octet) ==
    ~has_digit \/ digits = 0 \/ digits > 4 \/ current_octet > 255

octet_rejected(has_digit, digits, current_octet) ==
    ~has_digit \/ digits = 0 \/ digits > 3 \/ current_octet > 255

\* The loop of ps5_detector_validate_ip from character i (counted from 1)
\* with its four locals, and the tests after the loop.
RECURSIVE validate_ip_from(_, _, _, _, _, _)
validate_ip_from(ip, i, octet_count, current_octet, digits, has_digit) ==
    IF i > Len(ip)
    THEN /\ ~octet_rejected(has_digit, digits, current_octet)
         /\ octet_count = 3
    ELSE IF ip[i] = "."
    THEN IF octet_rejected(has_digit, digits, 0)
         THEN FALSE
         ELSE IF octet_count >= 3
         THEN FALSE
         ELSE IF current_octet > 255
         THEN FALSE
         ELSE validate_ip_from(ip, i + 1, octet_count + 1, 0, 0, FALSE)
    ELSE IF isdigit(ip[i])
    THEN IF current_octet * 10 + digit_value(ip[i]) > 255
         THEN FALSE
         ELSE validate_ip_from(ip, i + 1, octet_count,
                               current_octet * 10 + digit_value(ip[i]),
                               digits + 1, TRUE)
    ELSE FALSE

\* ps5_detector_validate_ip(ip), ip not NULL
ps5_detector_validate_ip(ip) ==
    IF Len(ip) = 0
    THEN FALSE
    ELSE validate_ip_from(ip, 1, 0, 0, 0, FALSE)

(***************************************************************************)
(* SpecValidate: the two validators applied to strings drawn from bounded  *)
(* sets.  Address strings are dot-joined groups; hardware address strings  *)
(* are a well-formed address with characters replaced, cut or extended.    *)
(***************************************************************************)
RECURSIVE JoinDots(_)
JoinDots(groups) ==
    IF Len(groups) = 0 THEN <<>>
    ELSE IF Len(groups) = 1 THEN groups[1]
    ELSE groups[1] \o <<".">> \o JoinDots(Tail(groups))

IpGroups ==
    {<<>>, <<"0">>, <<"7">>, <<"0", "1">>, <<"2", "5", "5">>, <<"2", "5", "6">>,
     <<"0", "0", "7">>, <<"0", "0", "0", "0">>, <<"1", "a">>, <<"-", "1">>}

FewGroups == {<<>>, <<"7">>, <<"2", "5", "5">>}

IpInputs ==
    {JoinDots(g) : g \in [1..4 -> IpGroups]}
        \cup UNION {{JoinDots(g) : g \in [1..n -> FewGroups]} : n \in 1..MaxGroups}

MacChars == {"0", "9", "a", "f", "A", "F", "g", "G", ":", "-", " ", "."}

\* str with character c at every position of the set at
Replaced(str, at, c) ==
    [i \in 1..Len(str) |-> IF i \in at THEN c ELSE str[i]]

MacInputs ==
    {Replaced(MacA, at, c) :
        at \in {x \in SUBSET (1..Len(MacA)) : Cardinality(x) <= MaxEdits},
        c \in MacChars}
        \cup {SubSeq(MacA, 1, n) : n \in 0..Len(MacA)}
        \cup {MacA \o <<c>> : c \in MacChars}

ValidateInputs == IpInputs \cup MacInputs

InitValidate ==
    /\ InitContext
    /\ g_server_ctx = "NULL"
    /\ InitWakeZero
    /\ InitMonitorZero
    /\ InitObservers
    /\ InitDetectorZero
    /\ main_pc = "api"
    /\ upd_p1 = "UNKNOWN"
    /\ g_running = TRUE
    /\ val_in \in ValidateInputs
    /\ val_out = NoCall

ValOthers ==
    UNCHANGED <<fsmVars, wakeVars, cecVars, threadVars, led_calls, enter_log,
                enter_view, wake_attempts, power_cb_log, op, errRun, c6, c6a,
                poll_prev, poll_cb, polls, events, fail_run, ret, wkVars,
                det_initialized, cache_file, det_info, det_saved, det_log,
                val_in, raceVars, regVars>>

ValidateIp ==
    /\ val_out' = [fn |-> "ip", ok |-> ps5_detector_validate_ip(val_in)]
    /\ ValOthers

ValidateMac ==
    /\ val_out' = [fn |-> "mac", ok |-> ps5_detector_validate_mac(val_in)]
    /\ ValOthers

NextValidate ==
    \/ ValidateIp
    \/ ValidateMac

SpecValidate == InitValidate /\ [][NextValidate]_vars

(***************************************************************************)
(* ps5_detector.c : the probes.                                            *)
(*   cmd_ok  : the ping command ran and printed "1 received"               *)
(*   lines   : the lines of `arp -n` that sscanf splits into the two       *)
(*             fields ip and mac, in order (none if the command failed)    *)
(*   reports : the last words of the "Nmap scan report for" lines, in      *)
(*             order (none if the command failed)                          *)
(***************************************************************************)
ps5_detector_ping(ip, cmd_ok) == ps5_detector_validate_ip(ip) /\ cmd_ok

arp_line_accepted(line) ==
    ps5_detector_validate_ip(line.ip) /\ ps5_detector_validate_mac(line.mac)

check_arp_table_result(lines) ==
    IF \E i \in 1..Len(lines) : arp_line_accepted(lines[i])
    THEN PS5_DETECT_OK
    ELSE PS5_DETECT_ERROR_NOT_FOUND

\* *info as check_arp_table leaves it at time t
check_arp_table_info(info, lines, t) ==
    IF check_arp_table_result(lines) = PS5_DETECT_OK
    THEN LET first == CHOOSE i \in 1..Len(lines) :
                        /\ arp_line_accepted(lines[i])
                        /\ \A j \in 1..(i - 1) : ~arp_line_accepted(lines[j])
         IN [ip |-> snprintf_s(PS5_IP_MAX_LEN, lines[first].ip),
             mac |-> snprintf_s(PS5_MAC_MAX_LEN, lines[first].mac),
             last_seen |-> t,
             online |-> TRUE]
    ELSE info

scan_network_nmap_result(reports) ==
    IF \E i \in 1..Len(reports) : ps5_detector_validate_ip(reports[i])
    THEN PS5_DETECT_OK
    ELSE PS5_DETECT_ERROR_NOT_FOUND

\* *info as scan_network_nmap leaves it at time t
scan_network_nmap_info(info, reports, t) ==
    IF scan_network_nmap_result(reports) = PS5_DETECT_OK
    THEN LET first == CHOOSE i \in 1..Len(reports) :
                        /\ ps5_detector_validate_ip(reports[i])
                        /\ \A j \in 1..(i - 1) :
                                ~ps5_detector_validate_ip(reports[j])
         IN [ip |-> snprintf_s(PS5_IP_MAX_LEN, reports[first]),
             mac |-> <<>>,
             last_seen |-> t,
             online |-> TRUE]
    ELSE info

\* "x_ok" or "x_fail" for the probe x
Probe(x, code) ==
    IF code = PS5_DETECT_OK THEN x \o "_ok" ELSE x \o "_fail"

(***************************************************************************)
(* ps5_detector_scan(info) on an initialized detector, as the record of    *)
(* what it returns and leaves behind: rc, *info, the cache file, the       *)
(* probes made.  lines2 is the address table read for the hardware         *)
(* address.                                                                *)
(***************************************************************************)
ps5_detector_scan(info, file, t, reports, lines2, fopen_ok) ==
    LET found == scan_network_nmap_info(info, reports, t)
        arp_rc == check_arp_table_result(lines2)
        arp_info == check_arp_table_info(ps5_info_zeroed, lines2, t)
        with_mac == IF found.mac = <<>> /\ arp_rc = PS5_DETECT_OK
                    THEN [found EXCEPT !.mac =
                            snprintf_s(PS5_MAC_MAX_LEN, arp_info.mac)]
                    ELSE found
    IN  IF scan_network_nmap_result(reports) = PS5_DETECT_OK
        THEN [rc |-> PS5_DETECT_OK,
              info |-> with_mac,
              file |-> save_cache_file(file, with_mac, fopen_ok),
              saved |-> fopen_ok,
              log |-> <<"nmap_ok", Probe("mac_lookup", arp_rc),
                        Probe("save", save_cache_result(fopen_ok))>>]
        ELSE [rc |-> PS5_DETECT_ERROR_NOT_FOUND,
              info |-> info,
              file |-> file,
              saved |-> FALSE,
              log |-> <<"nmap_fail">>]

\* The test of step 1 of ps5_detector_quick_check.  (First a faulty
\* variant that trusts a fresh cache without the ping.)
cache_tier_hit_without_ping(cached_rc, pinged) == cached_rc = PS5_DETECT_OK

cache_tier_hit(cached_rc, pinged) == cached_rc = PS5_DETECT_OK /\ pinged

(***************************************************************************)
(* ps5_detector_quick_check(cached_ip, info) on an initialized detector,   *)
(* as the same kind of record.  cached_ip is not used by the function.     *)
(***************************************************************************)
ps5_detector_quick_check(file, t, cmd_ok, lines, reports, lines2, fopen_ok) ==
    LET cached_rc == load_cache_result(file, t)
        cached == load_cache_info(file)
        pinged == ps5_detector_ping(cached.ip, cmd_ok)
        tier1 == IF cached_rc = PS5_DETECT_OK
                 THEN <<"cache_ok", IF pinged THEN "ping_ok" ELSE "ping_fail">>
                 ELSE <<"cache_invalid">>
        arp_rc == check_arp_table_result(lines)
        arp_info == check_arp_table_info(cached, lines, t)
        scanned == ps5_detector_scan(cached, file, t, reports, lines2, fopen_ok)
    IN  IF cache_tier_hit(cached_rc, pinged)
        THEN [rc |-> PS5_DETECT_OK,
              info |-> [cached EXCEPT !.online = TRUE, !.last_seen = t],
              file |-> file,
              saved |-> FALSE,
              log |-> tier1]
        ELSE IF arp_rc = PS5_DETECT_OK
        THEN [rc |-> PS5_DETECT_OK,
              info |-> arp_info,
              file |-> save_cache_file(file, arp_info, fopen_ok),
              saved |-> fopen_ok,
              log |-> tier1 \o <<"arp_ok",
                                 Probe("save", save_cache_result(fopen_ok))>>]
        ELSE [scanned EXCEPT !.log = tier1 \o <<"arp_fail">> \o scanned.log]

(***************************************************************************)
(* SpecDetector: the detector API called by one thread, the clock, and the *)
(* cache file changed from outside the detector.  Arguments and the        *)
(* answers of the commands are drawn from the sets below.                  *)
(***************************************************************************)
IpB ==
    <<"1", "9", "2", ".", "1", "6", "8", ".", "1", "0", "0", ".", "2", "0", "0">>

IpBad == <<"1", ".", "2">>

MacBad == SubSeq(MacA, 1, Len(MacA) - 1)

\* the readings of time(NULL): a first one, and those from one maximal
\* cache age later on
ClockTimes == {0} \cup PS5_CACHE_MAX_AGE..(PS5_CACHE_MAX_AGE + MaxLate)

\* records a caller passes to ps5_detector_save_cache at time t
SaveInfos(t) ==
    [ip : {IpA, IpBad}, mac : {MacA, <<>>}, last_seen : {0, t},
     online : BOOLEAN]

\* Cache files written by something else than save_cache_to_file: no
\* usable file at all, a whole record, and a whole record with one item
\* taken out or replaced by an item of another type.
WholeFiles ==
    {FileOf("json", JsonString(ip), JsonString(MacA), JsonNumber(0),
            JsonBool(online)) :
        ip \in {IpA, IpB \o <<"0">>}, online \in BOOLEAN}

WithIp(file, item) == [file EXCEPT !.ip = item]

WithMac(file, item) == [file EXCEPT !.mac = item]

WithLastSeen(file, item) == [file EXCEPT !.last_seen = item]

WithOnline(file, item) == [file EXCEPT !.online = item]

A_File == FileOf("json", JsonString(IpA), JsonString(MacA), JsonNumber(0),
                 JsonBool(TRUE))

FileInputs ==
    {FileOf(k, JsonAbsent, JsonAbsent, JsonAbsent, JsonAbsent) :
        k \in FileKinds}
    \cup WholeFiles
    \cup {WithIp(A_File, item) : item \in {JsonAbsent, JsonNumber(1)}}
    \cup {WithMac(A_File, item) : item \in {JsonAbsent, JsonNull}}
    \cup {WithLastSeen(A_File, item) :
            item \in {JsonAbsent, JsonString(<<"0">>)}}
    \cup {WithOnline(A_File, item) :
            item \in {JsonAbsent, JsonString(<<"1">>)}}

ArpOutputs ==
    {<<>>,
     <<[ip |-> IpBad, mac |-> MacA], [ip |-> IpB, mac |-> MacA]>>,
     <<[ip |-> IpA, mac |-> MacBad]>>}

MacLookups == {<<>>, <<[ip |-> IpB, mac |-> MacA]>>}

NmapOutputs == {<<>>, <<IpBad, IpA>>}

InitDetector ==
    /\ InitContext
    /\ g_server_ctx = "NULL"
    /\ InitWakeZero
    /\ InitMonitorZero
    /\ InitObservers
    /\ InitDetectorIdle
    /\ main_pc = "api"
    /\ upd_p1 = "UNKNOWN"
    /\ g_running = TRUE

DetOthers ==
    UNCHANGED <<fsmVars, wake_initialized, retry_count, last_wake_time,
                wake_callback, cecVars, threadVars, led_calls, enter_log,
                enter_view, wake_attempts, power_cb_log, op, errRun, c6, c6a,
                poll_prev, poll_cb, polls, events, fail_run, wkVars,
                val_in, val_out, raceVars, regVars>>

\* The calling thread is between two calls of the detector.
DetIdle == ret = <<"none", 0>>

\* A detector function returned code before touching anything.
DetRefused(fn, code) ==
    /\ ret' = <<fn, code>>
    /\ det_log' = <<>>
    /\ UNCHANGED <<det_initialized, cache_file, det_info, det_saved, now>>

\* ps5_detector_init(subnet, cache_path); args_ok: neither is NULL
DetInit ==
    \E args_ok \in BOOLEAN :
        /\ DetIdle
        /\ IF det_initialized
           THEN DetRefused("init", PS5_DETECT_ERROR_NOT_INIT)
           ELSE IF ~args_ok
           THEN DetRefused("init", PS5_DETECT_ERROR_INVALID_PARAM)
           ELSE /\ det_initialized' = TRUE
                /\ ret' = <<"init", PS5_DETECT_OK>>
                /\ det_log' = <<>>
                /\ UNCHANGED <<cache_file, det_info, det_saved, now>>
        /\ DetOthers

\* ps5_detector_cleanup()
DetCleanup ==
    /\ DetIdle
    /\ det_initialized' = FALSE
    /\ ret' = <<"cleanup", 0>>
    /\ det_log' = <<>>
    /\ UNCHANGED <<cache_file, det_info, det_saved, now>>
    /\ DetOthers

\* ps5_detector_get_cached(&info)
DetGetCached ==
    /\ DetIdle
    /\ IF ~det_initialized
       THEN DetRefused("get_cached", PS5_DETECT_ERROR_NOT_INIT)
       ELSE /\ det_info' = load_cache_info(cache_file)
            /\ ret' = <<"get_cached", load_cache_result(cache_file, now)>>
            /\ det_log' = <<"load">>
            /\ UNCHANGED <<det_initialized, cache_file, det_saved, now>>
    /\ DetOthers

\* ps5_detector_save_cache(&info)
DetSaveCache ==
    \E info \in SaveInfos(now), fopen_ok \in BOOLEAN :
        /\ DetIdle
        /\ IF ~det_initialized
           THEN DetRefused("save_cache", PS5_DETECT_ERROR_NOT_INIT)
           ELSE /\ cache_file' = save_cache_file(cache_file, info, fopen_ok)
                /\ det_saved' = IF fopen_ok THEN <<info>> ELSE det_saved
                /\ det_info' = info
                /\ ret' = <<"save_cache", save_cache_result(fopen_ok)>>
                /\ det_log' = <<"save">>
                /\ UNCHANGED <<det_initialized, now>>
        /\ DetOthers

\* What a scan or quick check leaves behind, from its record.
DetOutcome(fn, out) ==
    /\ det_info' = out.info
    /\ cache_file' = out.file
    /\ det_saved' = IF out.saved THEN <<out.info>> ELSE det_saved
    /\ ret' = <<fn, out.rc>>
    /\ det_log' = out.log
    /\ UNCHANGED <<det_initialized, now>>

\* ps5_detector_scan(&info)
DetScan ==
    \E reports \in NmapOutputs, lines2 \in MacLookups, fopen_ok \in BOOLEAN :
        /\ DetIdle
        /\ IF ~det_initialized
           THEN DetRefused("scan", PS5_DETECT_ERROR_NOT_INIT)
           ELSE \E out \in {ps5_detector_scan(det_info, cache_file, now,
                                              reports, lines2, fopen_ok)} :
                    DetOutcome("scan", out)
        /\ DetOthers

\* ps5_detector_quick_check(cached_ip, &info)
DetQuickCheck ==
    \E cmd_ok \in BOOLEAN, lines \in ArpOutputs, reports \in NmapOutputs,
       lines2 \in MacLookups, fopen_ok \in BOOLEAN :
        /\ DetIdle
        /\ IF ~det_initialized
           THEN DetRefused("quick_check", PS5_DETECT_ERROR_NOT_INIT)
           ELSE \E out \in {ps5_detector_quick_check(cache_file, now, cmd_ok,
                                                     lines, reports, lines2,
                                                     fopen_ok)} :
                    DetOutcome("quick_check", out)
        /\ DetOthers

\* ps5_detector_clear_cache(); unlink_ok: unlink succeeds or finds no file
DetClearCache ==
    \E unlink_ok \in BOOLEAN :
        /\ DetIdle
        /\ IF ~det_initialized
           THEN DetRefused("clear_cache", PS5_DETECT_ERROR_NOT_INIT)
           ELSE IF ~unlink_ok
           THEN DetRefused("clear_cache", PS5_DETECT_ERROR_CACHE_INVALID)
           ELSE /\ cache_file' = NoFile
                /\ det_saved' = <<>>
                /\ ret' = <<"clear_cache", PS5_DETECT_OK>>
                /\ det_log' = <<>>
                /\ UNCHANGED <<det_initialized, det_info, now>>
        /\ DetOthers

\* The caller's ps5_info_t, a local of the calling function, goes out of
\* scope with the result of the call.
CallerReturns ==
    /\ det_info' = ps5_info_zeroed
    /\ det_log' = <<>>
    /\ ret' = <<"none", 0>>

\* the call returns to its caller, which drops the record
DetReturn ==
    /\ ~DetIdle
    /\ CallerReturns
    /\ UNCHANGED <<det_initialized, cache_file, det_saved, now>>
    /\ DetOthers

\* time passes
DetTick ==
    \E t \in ClockTimes :
        /\ t > now
        /\ now' = t
        /\ CallerReturns
        /\ UNCHANGED <<det_initialized, cache_file, det_saved>>
        /\ DetOthers

\* the file at cache_path is replaced, truncated, removed or made
\* unreadable by something else than the detector
DetFileChanged ==
    \E file \in FileInputs :
        /\ cache_file' = file
        /\ det_saved' = <<>>
        /\ CallerReturns
        /\ UNCHANGED <<det_initialized, now>>
        /\ DetOthers

NextDetector ==
    \/ DetInit
    \/ DetCleanup
    \/ DetGetCached
    \/ DetSaveCache
    \/ DetScan
    \/ DetQuickCheck
    \/ DetClearCache
    \/ DetReturn
    \/ DetTick
    \/ DetFileChanged

SpecDetector == InitDetector /\ [][NextDetector]_vars

(***************************************************************************)
(* The cache file as text.  save_cache_to_file writes what cJSON_Print     *)
(* makes of the object it built; load_cache_from_file hands the bytes it   *)
(* read to cJSON_Parse.  Text is a sequence of characters; a read past     *)
(* its end finds the terminating NUL.  The strings written here hold no    *)
(* quote and no backslash, so escapes are left out.                        *)
(***************************************************************************)
Quote == "\""

Quoted(str) == <<Quote>> \o str \o <<Quote>>

\* the decimal digits of a non-negative integer
RECURSIVE print_number(_)
print_number(n) ==
    IF n < 10
    THEN <<DigitChars[n + 1]>>
    ELSE print_number(n \div 10) \o <<DigitChars[(n % 10) + 1]>>

\* one member of the object as cJSON_Print formats it
print_member(key, value, more) ==
    <<"\t">> \o Quoted(key) \o <<":", "\t">> \o value
        \o (IF more THEN <<",", "\n">> ELSE <<"\n">>)

\* json_str of save_cache_to_file for *info
cJSON_Print(info) ==
    <<"{", "\n">>
        \o print_member(<<"i", "p">>, Quoted(info.ip), TRUE)
        \o print_member(<<"m", "a", "c">>, Quoted(info.mac), TRUE)
        \o print_member(<<"l", "a", "s", "t", "_", "s", "e", "e", "n">>,
                        print_number(info.last_seen), TRUE)
        \o print_member(<<"o", "n", "l", "i", "n", "e">>,
                        IF info.online THEN <<"t", "r", "u", "e">>
                        ELSE <<"f", "a", "l", "s", "e">>, FALSE)
        \o <<"}">>

CharAt(text, i) == IF i <= Len(text) THEN text[i] ELSE "NUL"

RECURSIVE skip_whitespace(_, _)
skip_whitespace(text, i) ==
    IF CharAt(text, i) \in {" ", "\t", "\n", "\r"}
    THEN skip_whitespace(text, i + 1)
    ELSE i

\* the index of the quote that closes a string whose content starts at i,
\* 0 when the text ends first
RECURSIVE string_end(_, _)
string_end(text, i) ==
    IF CharAt(text, i) = "NUL" THEN 0
    ELSE IF CharAt(text, i) = Quote THEN i
    ELSE string_end(text, i + 1)

RECURSIVE number_end(_, _)
number_end(text, i) ==
    IF isdigit(CharAt(text, i)) THEN number_end(text, i + 1) ELSE i

RECURSIVE number_value(_)
number_value(ds) ==
    IF ds = <<>> THEN 0
    ELSE 10 * number_value(SubSeq(ds, 1, Len(ds) - 1))
            + digit_value(ds[Len(ds)])

StartsWith(text, i, word) ==
    /\ i + Len(word) - 1 <= Len(text)
    /\ SubSeq(text, i, i + Len(word) - 1) = word

ParseFailed == [ok |-> FALSE, item |-> JsonAbsent, next |-> 0]

Parsed(item, next) == [ok |-> TRUE, item |-> item, next |-> next]

parse_string(text, i) ==
    IF CharAt(text, i) # Quote THEN ParseFailed
    ELSE LET e == string_end(text, i + 1)
         IN  IF e = 0 THEN ParseFailed
             ELSE Parsed(JsonString(SubSeq(text, i + 1, e - 1)), e + 1)

\* parse_value for the values a cache file holds: a string, an unsigned
\* integer, true, false or null
parse_value(text, i) ==
    CASE CharAt(text, i) = Quote -> parse_string(text, i)
      [] isdigit(CharAt(text, i)) ->
            LET e == number_end(text, i)
            IN  Parsed(JsonNumber(number_value(SubSeq(text, i, e - 1))), e)
      [] StartsWith(text, i, <<"t", "r", "u", "e">>) ->
            Parsed(JsonBool(TRUE), i + 4)
      [] StartsWith(text, i, <<"f", "a", "l", "s", "e">>) ->
            Parsed(JsonBool(FALSE), i + 5)
      [] StartsWith(text, i, <<"n", "u", "l", "l">>) ->
            Parsed(JsonNull, i + 4)
      [] OTHER -> ParseFailed

\* parse_object ends the object at a closing brace and nowhere else.
\* (First a faulty one that also takes the end of the text for it.)
object_closed_at_end_too(c) == c \in {"}", "NUL"}

object_closed(c) == c = "}"

NoObject == [ok |-> FALSE, members |-> <<>>]

\* the members of parse_object from the key at i on
RECURSIVE parse_members(_, _, _)
parse_members(text, i, members) ==
    LET key == parse_string(text, i)
        colon == skip_whitespace(text, key.next)
        value == parse_value(text, skip_whitespace(text, colon + 1))
        after == skip_whitespace(text, value.next)
    IN  IF ~key.ok \/ CharAt(text, colon) # ":" \/ ~value.ok
        THEN NoObject
        ELSE LET all == Append(members, [key |-> key.item.s,
                                         item |-> value.item])
             IN  IF CharAt(text, after) = ","
                 THEN parse_members(text, skip_whitespace(text, after + 1),
                                    all)
                 ELSE IF object_closed(CharAt(text, after))
                 THEN [ok |-> TRUE, members |-> all]
                 ELSE NoObject

\* cJSON_Parse(json_str): NULL (ok = FALSE) or the root; a root that is
\* not an object has no members
cJSON_Parse(text) ==
    LET i == skip_whitespace(text, 1)
    IN  IF CharAt(text, i) = "{"
        THEN LET j == skip_whitespace(text, i + 1)
             IN  IF object_closed(CharAt(text, j))
                 THEN [ok |-> TRUE, members |-> <<>>]
                 ELSE parse_members(text, j, <<>>)
        ELSE [ok |-> parse_value(text, i).ok, members |-> <<>>]

\* cJSON_GetObjectItem(root, key): the first member of that name
cJSON_GetObjectItem(members, key) ==
    IF \E n \in 1..Len(members) : members[n].key = key
    THEN members[CHOOSE n \in 1..Len(members) :
                    /\ members[n].key = key
                    /\ \A m \in 1..(n - 1) : members[m].key # key].item
    ELSE JsonAbsent

\* what load_cache_from_file has in hand after cJSON_Parse and the four
\* lookups
file_of_text(json_str) ==
    LET root == cJSON_Parse(json_str)
    IN  IF ~root.ok
        THEN FileOf("unparsable", JsonAbsent, JsonAbsent, JsonAbsent,
                    JsonAbsent)
        ELSE FileOf("json",
                    cJSON_GetObjectItem(root.members, <<"i", "p">>),
                    cJSON_GetObjectItem(root.members, <<"m", "a", "c">>),
                    cJSON_GetObjectItem(root.members,
                        <<"l", "a", "s", "t", "_", "s", "e", "e", "n">>),
                    cJSON_GetObjectItem(root.members,
                        <<"o", "n", "l", "i", "n", "e">>))

(***************************************************************************)
(* SpecCacheRace: one ps5_detector_save_cache and any number of            *)
(* ps5_detector_get_cached on the same cache_path, in two threads or two   *)
(* processes of initialized detectors, one step per system call.           *)
(* saver.pc is                                                             *)
(*   "idle"    before the call                                             *)
(*   "printed" json_str made, before fopen(cache_path, "w")                *)
(*   "opened"  the file truncated, the text in the stream's buffer         *)
(*   "done"    returned                                                    *)
(* loader.pc is                                                            *)
(*   "idle"    between two calls                                           *)
(*   "opened"  after access and fopen(cache_path, "r")                     *)
(*   "sized"   after fseek / ftell                                         *)
(*   "read"    after fread and fclose                                      *)
(* and the call's result is in ret until the caller takes it.              *)
(***************************************************************************)
\* the records the file holds before the save and those being saved: they
\* differ in every field, the new text is shorter, as long or longer
RaceOld ==
    [ip |-> <<"1", "0", ".", "0", ".", "0", ".", "1", "5", "0">>, mac |-> MacA,
     last_seen |-> 0, online |-> FALSE]

RaceNew ==
    {[ip |-> ip, mac |-> SubSeq(MacA, 2, Len(MacA)) \o <<"0">>,
      last_seen |-> PS5_CACHE_MAX_AGE, online |-> TRUE] :
        ip \in {<<"1", ".", "2", ".", "3", ".", "4">>,
                <<"1", "0", ".", "0", ".", "0", ".", "7">>,
                <<"1", "0", ".", "0", ".", "0", ".", "1", "2", "3">>}}

InitCacheRace ==
    /\ InitContext
    /\ g_server_ctx = "NULL"
    /\ wake_initialized = FALSE
    /\ retry_count = 0
    /\ last_wake_time = 0
    /\ wake_callback = "NULL"
    /\ now = PS5_CACHE_MAX_AGE
    /\ InitMonitorZero
    /\ InitObservers
    /\ det_initialized = TRUE
    /\ cache_file = NoFile
    /\ det_info = ps5_info_zeroed
    /\ det_saved = <<>>
    /\ det_log = <<>>
    /\ val_in = <<>>
    /\ val_out = NoCall
    /\ main_pc = "api"
    /\ upd_p1 = "UNKNOWN"
    /\ g_running = TRUE
    /\ \E old \in {<<>>, <<RaceOld>>} :
        /\ stored = old
        /\ disk = IF old = <<>> THEN NoDisk
                  ELSE [exists |-> TRUE, bytes |-> cJSON_Print(old[1])]
    /\ saver \in {[SaverIdle EXCEPT !.info = info] : info \in RaceNew}
    /\ loader = LoaderIdle
    /\ InitRegistrationIdle

RaceOthers ==
    UNCHANGED <<fsmVars, wakeVars, cecVars, threadVars, led_calls, enter_log,
                enter_view, wake_attempts, power_cb_log, op, errRun, c6, c6a,
                poll_prev, poll_cb, polls, events, fail_run, wkVars,
                det_initialized, cache_file, det_saved, det_log, val_in,
                val_out, stored, regVars>>

SaverStep == UNCHANGED <<loader, det_info, ret>>

LoaderStep == UNCHANGED <<saver, disk>>

\* save_cache_to_file up to cJSON_Print
WrPrint ==
    /\ saver.pc = "idle"
    /\ saver' = [saver EXCEPT !.pc = "printed",
                              !.json_str = cJSON_Print(saver.info)]
    /\ UNCHANGED disk
    /\ SaverStep
    /\ RaceOthers

\* fopen(cache_path, "w"): the file is created or cut to length 0, or the
\* call fails and save_cache_to_file returns; fputs fills the buffer of
\* the stream
WrOpen ==
    \E fopen_ok \in BOOLEAN :
        /\ saver.pc = "printed"
        /\ IF fopen_ok
           THEN /\ disk' = [exists |-> TRUE, bytes |-> <<>>]
                /\ saver' = [saver EXCEPT !.pc = "opened"]
           ELSE /\ saver' = [saver EXCEPT !.pc = "done"]
                /\ UNCHANGED disk
        /\ SaverStep
        /\ RaceOthers

\* fclose flushes the buffer: write() takes the rest of the text or, when
\* it comes back short, a part of it, and is then called again
WrFlush ==
    \E n \in (Len(disk.bytes) + 1)..Len(saver.json_str) :
        /\ saver.pc = "opened"
        /\ disk' = [disk EXCEPT !.bytes = SubSeq(saver.json_str, 1, n)]
        /\ saver' = [saver EXCEPT
                        !.pc = IF n = Len(saver.json_str) THEN "done"
                               ELSE "opened"]
        /\ SaverStep
        /\ RaceOthers

\* load_cache_from_file: memset, access(F_OK) and fopen(cache_path, "r")
RdOpen ==
    /\ loader.pc = "idle"
    /\ ret = <<"none", 0>>
    /\ det_info' = ps5_info_zeroed
    /\ IF disk.exists
       THEN /\ loader' = [LoaderIdle EXCEPT !.pc = "opened"]
            /\ UNCHANGED ret
       ELSE /\ ret' = <<"get_cached", PS5_DETECT_ERROR_CACHE_INVALID>>
            /\ loader' = LoaderIdle
    /\ LoaderStep
    /\ RaceOthers

\* fseek(SEEK_END), ftell, fseek(SEEK_SET) and the test of file_size
RdSize ==
    /\ loader.pc = "opened"
    /\ IF Len(disk.bytes) <= 0 \/ Len(disk.bytes) > 4096
       THEN /\ ret' = <<"get_cached", PS5_DETECT_ERROR_CACHE_INVALID>>
            /\ loader' = [LoaderIdle EXCEPT !.file_size = Len(disk.bytes)]
       ELSE /\ loader' = [loader EXCEPT !.pc = "sized",
                                        !.file_size = Len(disk.bytes)]
            /\ UNCHANGED ret
    /\ UNCHANGED det_info
    /\ LoaderStep
    /\ RaceOthers

\* fread(json_str, 1, file_size, fp): at most file_size bytes, fewer when
\* the file is shorter by now; json_str[bytes_read] = '\0'
fread_bytes(bytes, file_size) == SubSeq(bytes, 1, Min(file_size, Len(bytes)))

RdRead ==
    /\ loader.pc = "sized"
    /\ loader' = [loader EXCEPT
                     !.pc = "read",
                     !.json_str = fread_bytes(disk.bytes, loader.file_size)]
    /\ UNCHANGED <<det_info, ret>>
    /\ LoaderStep
    /\ RaceOthers

\* cJSON_Parse and the rest of load_cache_from_file
RdParse ==
    \E file \in {file_of_text(loader.json_str)} :
        /\ loader.pc = "read"
        /\ det_info' = load_cache_info(file)
        /\ ret' = <<"get_cached", load_cache_result(file, now)>>
        /\ loader' = [loader EXCEPT !.pc = "idle"]
        /\ LoaderStep
        /\ RaceOthers

\* the caller takes the result and drops the record
RdReturn ==
    /\ loader.pc = "idle"
    /\ ret # <<"none", 0>>
    /\ ret' = <<"none", 0>>
    /\ det_info' = ps5_info_zeroed
    /\ loader' = LoaderIdle
    /\ LoaderStep
    /\ RaceOthers

NextCacheRace ==
    \/ WrPrint
    \/ WrOpen
    \/ WrFlush
    \/ RdOpen
    \/ RdSize
    \/ RdRead
    \/ RdParse
    \/ RdReturn

SpecCacheRace == InitCacheRace /\ [][NextCacheRace]_vars

(***************************************************************************)
(* Properties of the orchestrator (checked under Spec).                    *)
(***************************************************************************)

\* C1: from Monitoring one update() yields PS5Detected if power = On, else
\* ClientConnected if clientCount > 0, else Error if errorCount > 5, else
\* stays Monitoring; the first guard that holds wins.
C1_MonitoringRule ==
    [][ (op' = "update" /\ current_state = "MONITORING") =>
            current_state' =
                IF ps5_power = "ON" THEN "PS5_DETECTED"
                ELSE IF client_count > 0 THEN "CLIENT_CONNECTED"
                ELSE IF error_count > 5 THEN "ERROR"
                ELSE "MONITORING" ]_vars

\* An update() has just moved Monitoring to PS5Detected although clients
\* are connected and errorCount > 5.
C1_Witness ==
    /\ op = "update"
    /\ last_state = "MONITORING"
    /\ current_state = "PS5_DETECTED"
    /\ led_calls = 1
    /\ ps5_power = "ON"
    /\ client_count > 0
    /\ error_count > 5

\* C2: from ClientConnected one update() yields WakingPS5 if wakeRequested
\* and power # On (even with no client); else with no client PS5Detected
\* when power = On and Monitoring otherwise; else stays ClientConnected.  A
\* pending wake request with power = On never moves to WakingPS5.
C2_ClientConnectedRule ==
    [][ (op' = "update" /\ current_state = "CLIENT_CONNECTED") =>
            /\ current_state' =
                  IF wake_requested /\ ps5_power # "ON" THEN "WAKING_PS5"
                  ELSE IF client_count = 0
                       THEN (IF ps5_power = "ON" THEN "PS5_DETECTED"
                             ELSE "MONITORING")
                  ELSE "CLIENT_CONNECTED"
            /\ (ps5_power = "ON" => current_state' # "WAKING_PS5") ]_vars

\* An update() has just moved ClientConnected to WakingPS5 with no client
\* connected.
C2_Witness ==
    /\ op = "update"
    /\ last_state = "CLIENT_CONNECTED"
    /\ current_state = "WAKING_PS5"
    /\ led_calls = 1
    /\ wake_requested
    /\ ps5_power # "ON"
    /\ client_count = 0

\* The WakingPS5 rule of update(): wakeCompleted wins over errorCount > 3
\* and clears both flags; otherwise the flags are left alone.
WakingRule ==
    IF wake_completed
    THEN /\ current_state' = "CLIENT_CONNECTED"
         /\ ~wake_requested'
         /\ ~wake_completed'
    ELSE /\ current_state' = IF error_count > 3 THEN "ERROR" ELSE "WAKING_PS5"
         /\ wake_requested' = wake_requested
         /\ wake_completed' = wake_completed

\* C3 as stated: the WakingPS5 rule, and update() modifies wakeRequested
\* and wakeCompleted in no other state.
C3_Original ==
    [][ op' = "update" =>
            IF current_state = "WAKING_PS5"
            THEN WakingRule
            ELSE /\ wake_requested' = wake_requested
                 /\ wake_completed' = wake_completed ]_vars

\* C3 (amended): the WakingPS5 rule; in every other state update() leaves
\* wakeRequested alone, and leaves wakeCompleted alone except when it moves
\* ClientConnected to WakingPS5: the wake send run by the state-enter
\* callback then sets wakeCompleted to the result of that send.
C3_WakingRule ==
    [][ op' = "update" =>
            IF current_state = "WAKING_PS5"
            THEN WakingRule
            ELSE /\ wake_requested' = wake_requested
                 /\ IF current_state = "CLIENT_CONNECTED"
                       /\ current_state' = "WAKING_PS5"
                    THEN /\ enter_log' = <<"WAKING_PS5">>
                         /\ wake_attempts' >= 1
                         /\ wake_completed' = (retry_count' = 0)
                    ELSE wake_completed' = wake_completed ]_vars

\* An update() has just moved WakingPS5 to ClientConnected and cleared both
\* flags although errorCount > 3.
C3_Witness ==
    /\ op = "update"
    /\ last_state = "WAKING_PS5"
    /\ current_state = "CLIENT_CONNECTED"
    /\ led_calls = 1
    /\ error_count > 3
    /\ ~wake_requested
    /\ ~wake_completed

\* C4: from PS5Detected one update() yields Monitoring if power # On (even
\* with clients), else ClientConnected if clientCount > 0, else stays; never
\* Error or WakingPS5.
C4_PS5DetectedRule ==
    [][ (op' = "update" /\ current_state = "PS5_DETECTED") =>
            /\ current_state' =
                  IF ps5_power # "ON" THEN "MONITORING"
                  ELSE IF client_count > 0 THEN "CLIENT_CONNECTED"
                  ELSE "PS5_DETECTED"
            /\ current_state' \notin {"ERROR", "WAKING_PS5"} ]_vars

\* An update() has just moved PS5Detected to Monitoring although a client
\* is connected, a wake is requested and errorCount > 5.
C4_Witness ==
    /\ op = "update"
    /\ last_state = "PS5_DETECTED"
    /\ current_state = "MONITORING"
    /\ led_calls = 1
    /\ ps5_power # "ON"
    /\ client_count > 0
    /\ wake_requested
    /\ error_count > 5

\* C5: from Init one update() always moves to Monitoring; from Error one
\* update() moves to Init iff errorCount = 0 and otherwise stays in Error.
C5_InitAndErrorRule ==
    [][ op' = "update" =>
            /\ (current_state = "INIT" => current_state' = "MONITORING")
            /\ (current_state = "ERROR" =>
                    current_state' = IF error_count = 0 THEN "INIT" ELSE "ERROR")
      ]_vars

\* An update() has just moved Error to Init with power On, a client
\* connected and both wake flags set.
C5_Witness ==
    /\ op = "update"
    /\ last_state = "ERROR"
    /\ current_state = "INIT"
    /\ led_calls = 1
    /\ error_count = 0
    /\ ps5_power = "ON"
    /\ client_count > 0
    /\ wake_requested
    /\ wake_completed

\* C6 as stated: from a fresh context the sequence update; power-changed(On);
\* update; client-connected; update; wake-requested; update;
\* wake-completed(true); update visits Monitoring, PS5Detected,
\* ClientConnected, WakingPS5, ClientConnected and ends with both flags false.
C6_Original ==
    /\ (c6 = 1 => current_state = "MONITORING")
    /\ (c6 = 3 => current_state = "PS5_DETECTED")
    /\ (c6 = 5 => current_state = "CLIENT_CONNECTED")
    /\ (c6 = 7 => current_state = "WAKING_PS5")
    /\ (c6 = 9 => /\ current_state = "CLIENT_CONNECTED"
                  /\ ~wake_requested
                  /\ ~wake_completed)

\* C6 (amended): the same sequence with a power-changed event to a value
\* other than On raised before wake-requested visits Monitoring,
\* PS5Detected, ClientConnected, WakingPS5, ClientConnected and ends with
\* both flags false; without that event the fourth update() stays in
\* ClientConnected.
C6_Scenario ==
    /\ (c6a = 1 => current_state = "MONITORING")
    /\ (c6a = 3 => current_state = "PS5_DETECTED")
    /\ (c6a = 5 => current_state = "CLIENT_CONNECTED")
    /\ (c6a = 8 => current_state = "WAKING_PS5")
    /\ (c6a = 10 => /\ current_state = "CLIENT_CONNECTED"
                    /\ ~wake_requested
                    /\ ~wake_completed)
    /\ (c6 = 7 => current_state = "CLIENT_CONNECTED")

\* The amended scenario has run to its end.
C6_Witness ==
    /\ c6a = 10
    /\ op = "update"
    /\ last_state = "WAKING_PS5"
    /\ current_state = "CLIENT_CONNECTED"

\* C7: from Monitoring with power # On and no client, six error events and
\* an update() give Error; update() stays in Error while errorCount > 0;
\* with errorCount = 0 update() gives Init and the next update() Monitoring.
C7_ErrorRecovery ==
    [][ op' = "update" =>
            /\ (QuietMonitoring /\ op = "other" /\ errRun = 6 =>
                    current_state' = "ERROR")
            /\ (current_state = "ERROR" /\ error_count > 0 =>
                    current_state' = "ERROR")
            /\ (current_state = "ERROR" /\ error_count = 0 =>
                    current_state' = "INIT")
            /\ (op = "update" /\ last_state = "ERROR" /\ current_state = "INIT" =>
                    current_state' = "MONITORING") ]_vars

\* An update() following six error events in a row has just moved
\* Monitoring to Error.
C7_Witness ==
    /\ op = "update"
    /\ errRun = 6
    /\ last_state = "MONITORING"
    /\ current_state = "ERROR"
    /\ led_calls = 1

\* C8: no event operation changes current_state or last_state, updates the
\* indicator or invokes the state-enter callback.
C8_EventsDoNotTransition ==
    [][ EventOp =>
            /\ current_state' = current_state
            /\ last_state' = last_state
            /\ led' = led
            /\ led_calls' = 0
            /\ enter_log' = <<>> ]_vars

\* power-changed(On) has just acted in Monitoring: the guard of a rule
\* holds and the state has not moved.
C8_Witness ==
    /\ c6 = 2
    /\ op = "other"
    /\ ps5_power = "ON"
    /\ current_state = "MONITORING"
    /\ led_calls = 0
    /\ enter_log = <<>>


(***************************************************************************)
(* Properties of the power monitor and of the daemon's threads.            *)
(***************************************************************************)
\* C9: the power-changed event delivered by the polling thread never runs
\* while the main loop thread is inside server_sm_update: the polling
\* thread is never inside on_ps5_power_changed, about to write the context,
\* while the main thread is between the reads and the writes of an update.
\* (Checked under SpecDaemon.)
C9_Serialized ==
    ~(main_pc = "update_run" /\ mt_pc = "in_callback" /\ g_server_ctx = "ctx")

\* C10: when a pass of the polling loop has polled a value other than
\* UNKNOWN and reached its usleep: if the value differed from the state
\* published when it was polled, the published state is now that value and
\* a callback registered when change_ps5_state tested it was invoked
\* exactly once, with that value; if it was equal, no callback was invoked
\* and the published state is unchanged.  (Checked under SpecMonitor.)
C10_PollCallback ==
    (mt_pc = "sleep" /\ mt_state # "UNKNOWN") =>
        IF mt_state # poll_prev
        THEN /\ cec_current_state = mt_state
             /\ poll_cb # "NULL" => power_cb_log = <<mt_state>>
        ELSE /\ power_cb_log = <<>>
             /\ cec_current_state = poll_prev

\* A second change in a row has just been published and notified.
C10_Witness ==
    /\ mt_pc = "sleep"
    /\ mt_state # "UNKNOWN"
    /\ poll_prev # "UNKNOWN"
    /\ mt_state # poll_prev
    /\ cec_current_state = mt_state
    /\ power_cb_log = <<mt_state>>

\* C11: the monitor's counter is the number of failed (UNKNOWN) polls in a
\* row, so any successful poll resets it to 0; when a pass of the loop that
\* polled UNKNOWN reaches its usleep, the published state has become UNKNOWN
\* with one callback (to a callback registered when tested) if this was the
\* 5th failure in a row and the published state was not UNKNOWN, and
\* otherwise (fewer than 5 failures, or a 6th or later one) the published
\* state is untouched and no callback was invoked.
\* (Checked under SpecMonitor.)
C11_Degrade ==
    /\ consecutive_errors = fail_run
    /\ (mt_pc = "sleep" /\ mt_state # "UNKNOWN") => consecutive_errors = 0
    /\ (mt_pc = "sleep" /\ mt_state = "UNKNOWN") =>
          IF fail_run = CEC_MAX_CONSECUTIVE_ERRORS /\ poll_prev # "UNKNOWN"
          THEN /\ cec_current_state = "UNKNOWN"
               /\ Len(power_cb_log) <= 1
               /\ poll_cb # "NULL" => power_cb_log = <<"UNKNOWN">>
          ELSE /\ cec_current_state = poll_prev
               /\ power_cb_log = <<>>

\* The 5th failure in a row has just degraded a known state.
C11_Witness ==
    /\ mt_pc = "sleep"
    /\ mt_state = "UNKNOWN"
    /\ fail_run = CEC_MAX_CONSECUTIVE_ERRORS
    /\ poll_prev # "UNKNOWN"
    /\ cec_current_state = "UNKNOWN"
    /\ power_cb_log = <<"UNKNOWN">>

\* C12: whenever cec_monitor_stop() has returned and no other call of the
\* monitor's API has been made since, no polling thread exists (so no
\* callback is running or can start) and the monitor is not monitoring; and
\* a cec_monitor_stop() on a monitor that is not initialized or not
\* monitoring returns at once and changes nothing.
\* (Checked under SpecMonitor.)
C12_StopJoins ==
    /\ [](ret[1] = "stop" => (mt_pc = "none" /\ ~monitoring /\ main_pc = "api"))
    /\ [][(MonStop /\ ~(initialized /\ monitoring)) =>
              /\ ret'[1] = "stop"
              /\ UNCHANGED <<cecVars, mt_pc, mt_state, mutex, main_pc,
                             power_cb_log>>]_vars

\* stop() has returned after joining a thread whose last pass had invoked
\* the callback.
C12_Witness ==
    /\ ret[1] = "stop"
    /\ initialized
    /\ mt_pc = "none"
    /\ power_cb_log # <<>>

\* C13: there are never two polling threads; an uninitialized monitor has
\* no thread and is not monitoring; cec_monitor_start() on an uninitialized
\* monitor returns -1 and on a monitoring one returns 0, in both cases
\* without creating a thread or changing the monitor.
\* (Checked under SpecMonitor.)
C13_StartIdempotent ==
    /\ [](mt_pc # "two_threads")
    /\ [](~initialized => (mt_pc = "none" /\ ~monitoring))
    /\ [][(MonStart /\ (~initialized \/ monitoring)) =>
              /\ ret' = <<"start", IF initialized THEN 0 ELSE -1>>
              /\ UNCHANGED <<cecVars, mt_pc, mt_state, mutex>>]_vars

\* start() has returned success while the one polling thread is inside the
\* change callback.
C13_Witness ==
    /\ ret = <<"start", 0>>
    /\ monitoring
    /\ mt_pc = "in_callback"

(***************************************************************************)
(* Properties of the wake controller (checked under SpecWake).             *)
(***************************************************************************)
\* The step on which a ps5_wake_send() that ran its loop returns.
SendReturns == wk_pc # "idle" /\ wk_pc' = "idle"

AllFailed(results) == \A i \in 1..Len(results) : ~results[i]

\* C14: when ps5_wake_send() returns and every platform attempt it made
\* failed, it made exactly WAKE_MAX_RETRIES attempts with a pause between
\* consecutive ones and none after the last, invoked a registered callback
\* exactly once, with false, returns -1, and leaves last_wake_time as it
\* found it and retry_count at WAKE_MAX_RETRIES; it is never pausing once
\* the last attempt is made.
C14_AllAttemptsFail ==
    /\ [](wk_pc = "pause" => Len(wk_results) < WAKE_MAX_RETRIES)
    /\ [][(SendReturns /\ AllFailed(wk_results')) =>
              /\ Len(wk_results') = WAKE_MAX_RETRIES
              /\ wake_attempts' = WAKE_MAX_RETRIES
              /\ wake_pauses' = WAKE_MAX_RETRIES - 1
              /\ wake_cb_log' = IF wake_callback # "NULL"
                                THEN <<FALSE>> ELSE <<>>
              /\ ret' = <<"send", -1>>
              /\ last_wake_time' = wk_t0
              /\ retry_count' = WAKE_MAX_RETRIES]_vars

\* A send has failed after an earlier one had recorded a timestamp.
C14_Witness ==
    /\ ret = <<"send", -1>>
    /\ wake_initialized
    /\ wk_results = <<FALSE, FALSE, FALSE>>
    /\ wake_cb_log = <<FALSE>>
    /\ wk_t0 > 0
    /\ last_wake_time = wk_t0

\* C15: when ps5_wake_send() returns and its k-th platform attempt
\* succeeded, that attempt was its last and the only successful one, k is
\* in 1..WAKE_MAX_RETRIES, last_wake_time is the current time, retry_count
\* is 0, a registered callback was invoked exactly once, with true, and the
\* call returns 0; no attempt follows a success; retry_count is within
\* 0..WAKE_MAX_RETRIES in every reachable state.
C15_FirstSuccessEnds ==
    /\ [](retry_count \in 0..WAKE_MAX_RETRIES)
    /\ [](wk_pc # "idle" => AllFailed(wk_results))
    /\ [][(SendReturns /\ ~AllFailed(wk_results')) =>
              LET k == Len(wk_results')
              IN  /\ k \in 1..WAKE_MAX_RETRIES
                  /\ wk_results'[k]
                  /\ \A i \in 1..(k - 1) : ~wk_results'[i]
                  /\ wake_attempts' = k
                  /\ wake_pauses' = k - 1
                  /\ last_wake_time' = now
                  /\ retry_count' = 0
                  /\ wake_cb_log' = IF wake_callback # "NULL"
                                    THEN <<TRUE>> ELSE <<>>
                  /\ ret' = <<"send", 0>>]_vars

\* The third attempt has succeeded and a new timestamp is recorded.
C15_Witness ==
    /\ ret = <<"send", 0>>
    /\ wk_results = <<FALSE, FALSE, TRUE>>
    /\ wake_cb_log = <<TRUE>>
    /\ last_wake_time = now
    /\ last_wake_time # wk_t0
    /\ retry_count = 0

\* C16: when ps5_wake_verify() has queried the platform, the state stored
\* through the pointer is the queried one and the call returned 0 exactly
\* when that state is ON.
C16_VerifyOnlyOn ==
    (ret[1] = "verify" /\ ret[4] # "none") =>
        /\ ret[3] = ps5_wake_verify_state(ret[4])
        /\ ret[2] = 0 <=> ret[3] = "ON"

C20_TransitionOrder ==
    /\ [][(Transition \/ (op' = "update" /\ current_state' # current_state))
            => /\ last_state' = current_state
               /\ led' = map_server_state_to_led(current_state')
               /\ led_calls' = 1
               /\ on_state_enter # "NULL" => enter_log' = <<current_state'>>
               /\ on_state_enter = "NULL" => enter_log' = <<>>]_vars
    /\ [][enter_log' # <<>>
            => /\ Len(enter_log') = 1
               /\ Len(enter_view') = 1
               /\ enter_view'[1].current = enter_log'[1]
               /\ enter_view'[1].last = current_state
               /\ enter_view'[1].led = map_server_state_to_led(enter_log'[1])
               /\ current_state' = enter_log'[1]
               /\ last_state' = current_state]_vars

\* update() has left MONITORING for PS5_DETECTED and the callback was
\* invoked with the context already showing it.
C20_Witness ==
    /\ op = "update"
    /\ enter_log = <<"PS5_DETECTED">>
    /\ enter_view = <<[current |-> "PS5_DETECTED", last |-> "MONITORING",
                       led |-> map_server_state_to_led("PS5_DETECTED")]>>
    /\ current_state = "PS5_DETECTED"
    /\ last_state = "MONITORING"

\* C28: wake-completed(success) makes wakeCompleted equal to success, so
\* a failed completion clears a flag set earlier; it adds exactly 1 to
\* errorCount if and only if success is false; it changes no other field
\* of the context, sends no indicator signal and invokes no callback.
C28_WakeCompletedFrame ==
    [][\A success \in BOOLEAN :
        (server_sm_on_wake_completed(success) /\ ApiFrame) =>
            /\ wake_completed' = success
            /\ error_count' = IF success THEN error_count ELSE error_count + 1
            /\ UNCHANGED <<current_state, last_state, ps5_power, ps5_network,
                           client_count, wake_requested, on_state_enter, led>>
            /\ led_calls' = 0
            /\ enter_log' = <<>>]_vars

\* In the scenario of the specification the wake-completed(true) event has
\* just been delivered: the flag is set and no error is counted.
C28_Witness ==
    /\ c6 = 8
    /\ op = "other"
    /\ wake_completed
    /\ wake_requested
    /\ error_count = 0

\* Some rule of the current state matches the context.
RuleMatches ==
    CASE current_state = "INIT" -> TRUE
      [] current_state = "MONITORING" ->
            ps5_power = "ON" \/ client_count > 0 \/ error_count > 5
      [] current_state = "PS5_DETECTED" ->
            ps5_power # "ON" \/ client_count > 0
      [] current_state = "CLIENT_CONNECTED" ->
            (wake_requested /\ ps5_power # "ON") \/ client_count = 0
      [] current_state = "WAKING_PS5" -> wake_completed \/ error_count > 3
      [] current_state = "ERROR" -> error_count = 0

\* C29: one update() performs at most one transition: the state-enter
\* callback is invoked at most once, and (when one is registered) exactly
\* when current_state after the call differs from the one before; the
\* indicator is set at most once; when no rule of the current state
\* matches, state, previous state and indicator are unchanged.
C29_OneTransitionPerUpdate ==
    [][op' = "update" =>
        /\ Len(enter_log') <= 1
        /\ led_calls' <= 1
        /\ on_state_enter # "NULL" =>
                (enter_log' # <<>> <=> current_state' # current_state)
        /\ on_state_enter = "NULL" => enter_log' = <<>>
        /\ led_calls' = 1 <=> current_state' # current_state
        /\ current_state' # current_state <=> RuleMatches
        /\ ~RuleMatches =>
                /\ UNCHANGED <<current_state, last_state, led>>
                /\ led_calls' = 0]_vars

\* An update() found the context in ClientConnected with a client and no
\* wake request: nothing matched, nothing was invoked.
C29_Witness ==
    /\ op = "update"
    /\ on_state_enter # "NULL"
    /\ current_state = "CLIENT_CONNECTED"
    /\ client_count > 0
    /\ ~wake_requested
    /\ enter_log = <<>>
    /\ led_calls = 0

\* C30: after create and after any sequence of update, transition, reset
\* and event operations the indicator signal last sent to the platform is
\* the one mapped from the current state, and the mapping gives the six
\* states six different signals.
C30_IndicatorFollowsState ==
    /\ led = map_server_state_to_led(current_state)
    /\ \A s1, s2 \in ServerStates :
            s1 # s2 => map_server_state_to_led(s1) # map_server_state_to_led(s2)
    /\ Cardinality(ServerStates) = 6

\* An update() has moved the context into WakingPS5 and the waking signal
\* is the one shown.
C30_Witness ==
    /\ op = "update"
    /\ current_state = "WAKING_PS5"
    /\ last_state = "CLIENT_CONNECTED"
    /\ led = "LED_STATE_WAKING"
    /\ led_calls = 1

(***************************************************************************)
(* Properties of the validators (checked under SpecValidate).              *)
(***************************************************************************)

\* The groups of str between its dots, in order (one more than the dots).
RECURSIVE DotGroups(_, _)
DotGroups(str, group) ==
    IF Len(str) = 0 THEN <<group>>
    ELSE IF Head(str) = "." THEN <<group>> \o DotGroups(Tail(str), <<>>)
    ELSE DotGroups(Tail(str), Append(group, Head(str)))

\* The value of a sequence of decimal digits.
RECURSIVE DecimalValue(_)
DecimalValue(ds) ==
    IF Len(ds) = 0 THEN 0
    ELSE 10 * DecimalValue(SubSeq(ds, 1, Len(ds) - 1)) + digit_value(ds[Len(ds)])

DecimalChars == {"0", "1", "2", "3", "4", "5", "6", "7", "8", "9"}

HexChars ==
    DecimalChars \cup {"a", "b", "c", "d", "e", "f", "A", "B", "C", "D", "E", "F"}

DottedQuad(str) ==
    LET gs == DotGroups(str, <<>>) IN
    /\ Len(gs) = 4
    /\ \A k \in 1..4 :
        /\ Len(gs[k]) \in 1..3
        /\ \A j \in 1..Len(gs[k]) : gs[k][j] \in DecimalChars
        /\ DecimalValue(gs[k]) \in 0..255

\* C25: validateAddress(s) is true exactly when s is four dot-separated
\* groups of 1 to 3 decimal digits, each of value 0..255, with no empty
\* group, no leading, trailing or extra dot and no other character; leading
\* zeros inside a group are accepted.
C25_ValidateAddress ==
    val_out.fn = "ip" => (val_out.ok <=> DottedQuad(val_in))

\* "01.7.255.007" has been accepted.
C25_Witness ==
    /\ val_out = [fn |-> "ip", ok |-> TRUE]
    /\ val_in = <<"0", "1", ".", "7", ".", "2", "5", "5", ".", "0", "0", "7">>

\* C26: validateHardwareAddress(s) is true exactly when s has length 17,
\* ':' at positions 2, 5, 8, 11 and 14 and a hexadecimal digit of either
\* case at every other position.
C26_ValidateHardwareAddress ==
    val_out.fn = "mac" =>
        (val_out.ok <=>
            /\ Len(val_in) = 17
            /\ \A i \in 0..16 :
                IF i \in {2, 5, 8, 11, 14}
                THEN val_in[i + 1] = ":"
                ELSE val_in[i + 1] \in HexChars)

\* The well-formed mixed-case address has been accepted.
C26_Witness ==
    /\ val_out = [fn |-> "mac", ok |-> TRUE]
    /\ val_in = MacA

(***************************************************************************)
(* Properties of the presence detector (checked under SpecDetector).       *)
(***************************************************************************)

\* An initialized detector has run get_cached in this step.
GetCachedRan ==
    det_initialized /\ ret'[1] = "get_cached" /\ det_log' = <<"load">>

\* C21: after saveCache(record), getCached() made while now - lastSeen is
\* at most 3600 s returns success and a record equal to the saved one in
\* address, hardware address, lastSeen and online; made later, it reports
\* cache-invalid.
C21_CacheRoundTrip ==
    [][(GetCachedRan /\ det_saved # <<>>) =>
            IF now - det_saved[1].last_seen <= 3600
            THEN /\ ret'[2] = PS5_DETECT_OK
                 /\ det_info'.ip = det_saved[1].ip
                 /\ det_info'.mac = det_saved[1].mac
                 /\ det_info'.last_seen = det_saved[1].last_seen
                 /\ det_info'.online = det_saved[1].online
            ELSE ret'[2] = PS5_DETECT_ERROR_CACHE_INVALID]_vars

\* A record saved at time 0 with online = false has been read back when
\* exactly 3600 s old.
C21_Witness ==
    /\ ret = <<"get_cached", PS5_DETECT_OK>>
    /\ now = 3600
    /\ det_saved = <<[ip |-> IpA, mac |-> MacA, last_seen |-> 0,
                      online |-> FALSE]>>
    /\ det_info = det_saved[1]

\* The file holds all four items with their types and is not too old.
CompleteAndFresh(file, t) ==
    /\ file.kind = "json"
    /\ file.ip.t = "string"
    /\ file.mac.t = "string"
    /\ file.last_seen.t = "number"
    /\ file.online.t \in {"true", "false"}
    /\ t - file.last_seen.n <= 3600

\* C22: getCached() returns success only for a complete, fresh record and
\* reports cache-invalid whenever the file is absent, empty, not parsable
\* or lacks (or has with a wrong type) any of ip, mac, last_seen, online.
C22_IncompleteIsInvalid ==
    [][GetCachedRan =>
            IF CompleteAndFresh(cache_file, now)
            THEN ret'[2] = PS5_DETECT_OK
            ELSE ret'[2] = PS5_DETECT_ERROR_CACHE_INVALID]_vars

\* An initialized detector has run quick_check in this step.
QuickCheckRan ==
    det_initialized /\ ret'[1] = "quick_check" /\ det_log' # <<>>

TierProbes ==
    {"cache_ok", "cache_invalid", "ping_ok", "ping_fail", "arp_ok", "arp_fail",
     "nmap_ok", "nmap_fail"}

\* C23: quickCheck tries cache, address table, scan in this order and stops
\* at the first that succeeds: the cache is read first and a valid one is
\* always pinged; the address table is read only after an invalid cache
\* or a failed ping; the scan runs only after a failed address-table
\* lookup; a failed tier is followed by the next one; not-found is
\* returned exactly when the scan tier failed.
C23_TierOrder ==
    [][QuickCheckRan =>
        LET probes == det_log'
            HasAt(i, names) == i \in 1..Len(probes) /\ probes[i] \in names
        IN  /\ probes[1] =
                    IF load_cache_extracts(cache_file)
                        /\ now - cache_file.last_seen.n <= 3600
                    THEN "cache_ok" ELSE "cache_invalid"
            /\ \A i \in 1..Len(probes) :
                /\ probes[i] \in {"cache_ok", "cache_invalid"} => i = 1
                /\ probes[i] = "cache_ok" => HasAt(2, {"ping_ok", "ping_fail"})
                /\ probes[i] \in {"ping_ok", "ping_fail"} =>
                        i = 2 /\ probes[1] = "cache_ok"
                /\ probes[i] \in {"arp_ok", "arp_fail", "mac_lookup_ok",
                                  "mac_lookup_fail"} =>
                        probes[1] = "cache_invalid" \/ probes[2] = "ping_fail"
                /\ probes[i] \in {"arp_ok", "arp_fail"} =>
                        probes[i - 1] \in {"cache_invalid", "ping_fail"}
                /\ probes[i] \in {"nmap_ok", "nmap_fail"} =>
                        probes[i - 1] = "arp_fail"
                /\ probes[i] \in {"cache_invalid", "ping_fail"} =>
                        HasAt(i + 1, {"arp_ok", "arp_fail"})
                /\ probes[i] = "arp_fail" =>
                        HasAt(i + 1, {"nmap_ok", "nmap_fail"})
                /\ probes[i] \in {"ping_ok", "arp_ok", "nmap_ok"} =>
                        /\ ret'[2] = PS5_DETECT_OK
                        /\ \A j \in (i + 1)..Len(probes) :
                                probes[j] \notin TierProbes
            /\ ret'[2] \in {PS5_DETECT_OK, PS5_DETECT_ERROR_NOT_FOUND}
            /\ ret'[2] = PS5_DETECT_ERROR_NOT_FOUND <=>
                    probes[Len(probes)] = "nmap_fail"]_vars

\* A quick check went through all three tiers: the cached address did not
\* answer the ping, the address table had no entry, the scan found one.
C23_Witness ==
    /\ ret = <<"quick_check", PS5_DETECT_OK>>
    /\ det_log = <<"cache_ok", "ping_fail", "arp_fail", "nmap_ok",
                   "mac_lookup_ok", "save_ok">>

\* C24: right after a successful quickCheck() or scan(), whichever tier
\* produced it, the record in the cache file equals the record returned
\* to the caller: same address, hardware address, lastSeen, online = true.
\* (Stated for the calls in which no write of the file failed.)
C24_PersistsPositiveResult ==
    [][(det_initialized /\ ret'[1] \in {"quick_check", "scan"}
            /\ det_log' # <<>> /\ ret'[2] = PS5_DETECT_OK
            /\ \A i \in 1..Len(det_log') : det_log'[i] # "save_fail") =>
        /\ det_info'.online
        /\ cache_file'.kind = "json"
        /\ cache_file'.ip = JsonString(det_info'.ip)
        /\ cache_file'.mac = JsonString(det_info'.mac)
        /\ cache_file'.last_seen = JsonNumber(det_info'.last_seen)
        /\ cache_file'.online = JsonBool(TRUE)]_vars

(***************************************************************************)
(* Properties of the daemon wiring (checked under SpecDaemon).             *)
(***************************************************************************)

\* C27: in the daemon every entry into Monitoring calls the power
\* monitor's start(), which changes nothing when the loop already runs and
\* else launches the polling thread (or fails to); every entry into
\* WakingPS5 runs one send() of the wake controller (1 to 3 platform
\* attempts) whose result comes back only as the wake-completed event,
\* flag and errorCount, the state being still WakingPS5 when the
\* transition returns; no other entry starts the monitor or sends.
C27_EntryActions ==
    [][(DmUpdate /\ current_state' # current_state) =>
        /\ enter_log' = <<current_state'>>
        /\ IF enter_log' = <<"MONITORING">>
           THEN IF monitoring
                THEN monitoring' /\ mt_pc' = mt_pc
                ELSE \/ monitoring' /\ mt_pc = "none" /\ mt_pc' = "loop"
                     \/ ~monitoring' /\ mt_pc' = mt_pc
           ELSE monitoring' = monitoring /\ mt_pc' = mt_pc
        /\ IF enter_log' = <<"WAKING_PS5">>
           THEN /\ current_state' = "WAKING_PS5"
                /\ wake_attempts' \in 1..3
                /\ retry_count' \in {0, 3}
                /\ wake_completed' = (retry_count' = 0)
                /\ error_count' =
                        IF retry_count' = 0 THEN error_count
                        ELSE error_count + 1
           ELSE /\ wake_attempts' = 0
                /\ error_count' = error_count
                /\ retry_count' = retry_count]_vars

\* The daemon has entered WakingPS5 and the send failed: the failure is
\* counted and the state is WakingPS5.
C27_Witness ==
    /\ op = "update"
    /\ enter_log = <<"WAKING_PS5">>
    /\ current_state = "WAKING_PS5"
    /\ wake_attempts = 3
    /\ ~wake_completed
    /\ error_count >= 1

(***************************************************************************)
(* C31: the polling thread holds the monitor's mutex only between the lock *)
(* and the unlock of change_ps5_state, where it writes the published       *)
(* state: the mutex is free while the thread queries the platform (at the  *)
(* top of its loop), while it sleeps and while the change callback is      *)
(* tested and run, so cec_monitor_get_state() can take it at once; and     *)
(* the state handed to the callback is the one just published.             *)
(***************************************************************************)
C31_MutexScope ==
    /\ mutex = "monitor" => mt_pc = "chg_write"
    /\ mt_pc \in {"loop", "sleep", "chg_cb", "in_callback"} => mutex = "free"
    /\ mt_pc = "in_callback" =>
          /\ power_cb_log # <<>>
          /\ power_cb_log[Len(power_cb_log)] = cec_current_state
          /\ cec_current_state # poll_prev

\* The callback is running on the polling thread with a newly published
\* state while the main thread is in ws_server_service with a client whose
\* next message makes it call cec_monitor_get_state().
C31_Witness ==
    /\ mt_pc = "in_callback"
    /\ main_pc = "service"
    /\ client_count > 0
    /\ events < MaxEvents
    /\ cec_current_state = "ON"
    /\ power_cb_log = <<"ON">>
    /\ ENABLED DmQueryMessage


(***************************************************************************)
(* C32: a ps5_detector_get_cached that runs while a save of the same file  *)
(* is in progress returns PS5_DETECT_ERROR_CACHE_INVALID or PS5_DETECT_OK  *)
(* with one whole record, the one the file held before the save or the     *)
(* one being saved, never a record made of parts of both or lacking a      *)
(* field; and it never reads more bytes than the buffer it allocated for   *)
(* file_size holds.                                                        *)
(***************************************************************************)
C32_NoTornRecord ==
    /\ Len(loader.json_str) <= loader.file_size
    /\ ret[1] = "get_cached" =>
          \/ /\ ret[2] = PS5_DETECT_ERROR_CACHE_INVALID
          \/ /\ ret[2] = PS5_DETECT_OK
             /\ \/ stored # <<>> /\ det_info = stored[1]
                \/ saver.pc # "idle" /\ det_info = saver.info

\* A load measured the old file, the save then cut it and wrote a part of
\* the new text, and the load read that part and reported an invalid
\* cache.
C32_Witness ==
    /\ ret = <<"get_cached", PS5_DETECT_ERROR_CACHE_INVALID>>
    /\ stored # <<>>
    /\ loader.file_size = Len(cJSON_Print(stored[1]))
    /\ loader.json_str # <<>>
    /\ Len(loader.json_str) < Len(saver.json_str)
    /\ loader.json_str = SubSeq(saver.json_str, 1, Len(loader.json_str))

(***************************************************************************)
(* C33: once the periodic check of the main loop has obtained a detector   *)
(* result (ps5_online true or false) while the context exists, the         *)
(* context's network status is no longer NET_UNKNOWN: it is the status     *)
(* the result stands for.                                                  *)
(***************************************************************************)
C33_NetworkFollowsDetector ==
    (det_log = <<"load">> /\ g_server_ctx = "ctx" /\ main_pc = "loop") =>
        ps5_network =
            IF ps5_online_of(load_cache_result(cache_file, now), det_info)
            THEN "NET_ONLINE" ELSE "NET_OFFLINE"

(***************************************************************************)
(* C34: with the main loop running and no event arriving while the         *)
(* orchestrator is in WAKING_PS5, every stay in WAKING_PS5 ends: the       *)
(* orchestrator goes on to CLIENT_CONNECTED after a send that succeeded    *)
(* and to ERROR after a send that used up its attempts.                    *)
(***************************************************************************)
C34_LeavesWaking ==
    /\ [](current_state = "WAKING_PS5" /\ wake_completed =>
            <>(current_state = "CLIENT_CONNECTED"))
    /\ [](current_state = "WAKING_PS5" /\ ~wake_completed =>
            <>(current_state = "ERROR"))

(***************************************************************************)
(* C35: a RequestWake message makes the wake controller run its send       *)
(* sequence once: when the last message handled was a RequestWake, whose   *)
(* handler has run ps5_wake_send, the update that then enters WAKING_PS5   *)
(* issues no platform wake attempt of its own.                             *)
(***************************************************************************)
C35_OneSendPerRequest ==
    [][(/\ ret[1] = "wake_result"
        /\ wake_requested
        /\ current_state # "WAKING_PS5"
        /\ current_state' = "WAKING_PS5") => wake_attempts' = 0]_vars

(***************************************************************************)
(* C36: under update() and the event operations error_count never          *)
(* decreases; a step that lowers it is a reset(), which leaves the context *)
(* in INIT with every field at its default.  So a step that leaves ERROR   *)
(* is a reset() too: no update() and no event operation leaves ERROR.      *)
(***************************************************************************)
ContextAsReset ==
    /\ current_state = "INIT"
    /\ last_state = "INIT"
    /\ error_count = 0
    /\ client_count = 0
    /\ ps5_power = "UNKNOWN"
    /\ ps5_network = "NET_UNKNOWN"
    /\ ~wake_requested
    /\ ~wake_completed

C36_ErrorCountMonotone ==
    [][/\ (error_count' < error_count => ContextAsReset' /\ op' = "other")
       /\ (current_state = "ERROR" /\ current_state' # "ERROR" =>
              ContextAsReset' /\ op' = "other")
       /\ (current_state # "ERROR" /\ current_state' = "ERROR" =>
              error_count' > 3)]_vars

\* An update() made in ERROR, entered from WAKING_PS5 with four errors,
\* has left the orchestrator in ERROR.
C36_Witness ==
    /\ current_state = "ERROR"
    /\ last_state = "WAKING_PS5"
    /\ op = "update"
    /\ enter_log = <<>>
    /\ error_count = 4

(***************************************************************************)
(* C37: with update() called again and again, a pending wake request       *)
(* leads to WAKING_PS5 unless the last client leaves, power becomes ON or  *)
(* the orchestrator is in ERROR; and the request flag is dropped only by   *)
(* the update() that leaves WAKING_PS5 for CLIENT_CONNECTED or by reset(), *)
(* not by a transition through MONITORING or PS5_DETECTED.                 *)
(***************************************************************************)
C37_RequestReachesWaking ==
    /\ wake_requested ~>
          \/ current_state = "WAKING_PS5"
          \/ client_count = 0
          \/ ps5_power = "ON"
          \/ current_state = "ERROR"
    /\ [][wake_requested /\ ~wake_requested' =>
            \/ /\ current_state = "WAKING_PS5"
               /\ current_state' = "CLIENT_CONNECTED"
               /\ op' = "update"
            \/ ContextAsReset' /\ op' = "other"]_vars

\* An update() has taken the orchestrator from CLIENT_CONNECTED to
\* WAKING_PS5 with the request still pending.
C37_Witness ==
    /\ current_state = "WAKING_PS5"
    /\ last_state = "CLIENT_CONNECTED"
    /\ op = "update"
    /\ wake_requested
    /\ client_count > 0
    /\ ps5_power # "ON"

ShuttingDown == main_pc \in {"cec_stop", "stop_join", "cleanup", "exited"}

C39_NoEventAfterDestroy ==
    /\ [](g_server_ctx = "NULL" => mt_pc = "none")
    /\ [](mt_pc = "in_callback" => g_server_ctx = "ctx")
    /\ [][g_server_ctx = "ctx" /\ g_server_ctx' = "NULL" =>
            mt_pc = "none" /\ ~monitoring]_vars
    /\ [][ShuttingDown => (monitoring' => monitoring)]_vars

\* The main thread waits in pthread_join while the polling thread is inside
\* on_ps5_power_changed: the context it is about to write still exists.
C39_Witness ==
    /\ main_pc = "stop_join"
    /\ mt_pc = "in_callback"
    /\ g_server_ctx = "ctx"
    /\ ~monitoring

(***************************************************************************)
(* C40: the function the polling thread calls for a change and the user    *)
(* data it passes were registered by the same cec_monitor_set_callback     *)
(* call, also when a registration runs during the delivery.                *)
(***************************************************************************)
C40_CallbackPaired == cb_call = <<>> \/ cb_call \in Registrations

=============================================================================
